---- MODULE Spec2Model ----
(***************************************************************************)
(* Model of the cartridge memory-mapping subsystem of libgb-rs: the shared *)
(* banked ROM/RAM container and the MBC1, MBC2 and MBC3 mappers built on   *)
(* it.  A cartridge is a record; every trait method is an operator that    *)
(* returns the cartridge after the call together with the call's result.  *)
(* Numbers written in the source in hexadecimal are given in decimal with  *)
(* the hexadecimal form in a comment.                                      *)
(***************************************************************************)
EXTENDS Integers, Sequences, FiniteSets, TLC

VARIABLES cart, last, now, overflow_checks
\* cart : the cartridge mapper object (all of its fields)
\* last : the most recent call made on it: method, arguments and result
\* now  : the wall clock read by Instant::now(), in whole seconds
\* overflow_checks : the build profile; integer overflow panics when TRUE
\*        (debug) and wraps when FALSE (release)

vars == <<cart, last, now, overflow_checks>>

-----------------------------------------------------------------------------
(* Machine integers *)

RECURSIVE BitAnd(_, _)
\* a & b on unsigned integers
BitAnd(a, b) ==
    IF a = 0 \/ b = 0 THEN 0
    ELSE (a % 2) * (b % 2) + 2 * BitAnd(a \div 2, b \div 2)

RECURSIVE BitOr(_, _)
\* a | b on unsigned integers
BitOr(a, b) ==
    IF a = 0 THEN b
    ELSE IF b = 0 THEN a
    ELSE (IF a % 2 = 1 \/ b % 2 = 1 THEN 1 ELSE 0) + 2 * BitOr(a \div 2, b \div 2)

RECURSIVE Pow2(_)
Pow2(n) == IF n = 0 THEN 1 ELSE 2 * Pow2(n - 1)

\* (a << n) on a u8: bits shifted past bit 7 are lost
ShlU8(a, n) == (a * Pow2(n)) % 256

\* (a << n) on a usize (no bit of the values used here is lost)
ShlUsize(a, n) == a * Pow2(n)

-----------------------------------------------------------------------------
(* Option / Result values of the trait methods *)

Some(v) == [tag |-> "Some", val |-> v]
None == [tag |-> "None", val |-> 0]
Ok(v) == [tag |-> "Ok", val |-> v]
OkUnit == [tag |-> "Ok", val |-> 0]
Err == [tag |-> "Err", val |-> 0]
\* a panic (remainder with a divisor of zero, arithmetic overflow, a slice
\* range past the end): the call returns nothing
Panic == [tag |-> "Panic", val |-> 0]

\* LoadCartridgeError
UnsupportedType == [tag |-> "UnsupportedType", val |-> 0]
InvalidRomFile == [tag |-> "InvalidRomFile", val |-> 0]

\* SaveError, and the Vec<u8> that save returns
SavesNotSupported == [tag |-> "SavesNotSupported", val |-> 0]
SaveFileTooBig == [tag |-> "SaveFileTooBig", val |-> 0]
Saved(v) == [tag |-> "Vec", val |-> v]

-----------------------------------------------------------------------------
(* Vec<u8> / [u8; N]: a length and the bytes that are not zero *)

VecZero(n) == [len |-> n, nz |-> <<>>]

\* slice.get(i).copied()
VecGet(v, i) ==
    IF i < v.len
    THEN Some(IF i \in DOMAIN v.nz THEN v.nz[i] ELSE 0)
    ELSE None

\* *slice.get_mut(i) = b, for i < len
VecSet(v, i, b) ==
    [v EXCEPT !.nz =
        IF b = 0
        THEN [j \in (DOMAIN v.nz) \ {i} |-> v.nz[j]]
        ELSE [j \in (DOMAIN v.nz) \cup {i} |-> IF j = i THEN b ELSE v.nz[j]]]

\* fault: the copy replaces the whole vector, zeroing what lies past the data
VecCopyFromSlice_whole(v, data) ==
    [v EXCEPT !.nz = [j \in {i \in 0 .. (Len(data) - 1) : data[i + 1] # 0} |-> data[j + 1]]]

\* v[0..data.len()].copy_from_slice(data), for a sequence data no longer than
\* v; index 0 is data[1]
VecCopyFromSlice(v, data) ==
    LET idxs == 0 .. (Len(data) - 1)
        keep == {j \in DOMAIN v.nz : j \notin idxs}
        set == {j \in idxs : data[j + 1] # 0}
    IN  [v EXCEPT !.nz = [j \in keep \cup set |->
                             IF j \in idxs THEN data[j + 1] ELSE v.nz[j]]]

-----------------------------------------------------------------------------
(* memory/cartridge.rs, memory/cartridge/bankedrom.rs *)

ROM_BANK_SIZE == 16384
RAM_BANK_SIZE == 8192

\* BankedRom::new: a ROM image longer than rom_size is refused; one that fits
\* is copied into a zero vector of rom_size bytes
BankedRom_new(rom_bytes, rom_banks, ram_banks, has_battery, manual_bank_logic) ==
    IF rom_bytes.len > ROM_BANK_SIZE * rom_banks
    THEN InvalidRomFile
    ELSE Ok([rom |-> [len |-> ROM_BANK_SIZE * rom_banks, nz |-> rom_bytes.nz],
             rom_bank |-> 1,
             ram |-> VecZero(RAM_BANK_SIZE * ram_banks),
             ram_bank |-> 0,
             has_battery |-> has_battery,
             manual_bank_logic |-> manual_bank_logic])

\* BankedRom::set_rom_bank; the remainder panics when the ROM has no bank
BankedRom_set_rom_bank_panics(b) == b.rom.len \div ROM_BANK_SIZE = 0

BankedRom_set_rom_bank(b, bank) ==
    LET bank_count == b.rom.len \div ROM_BANK_SIZE
    IN  [b EXCEPT !.rom_bank = bank % bank_count]

\* fault: the low window is not locked to bank 0
BankedRom_read_rom_unlocked(b, address) ==
    IF address >= 32768
    THEN None
    ELSE VecGet(b.rom, BitOr(ShlUsize(b.rom_bank, 14), BitAnd(address, 16383)))

BankedRom_read_rom(b, address) ==
    IF address >= 32768 \* 0x8000
    THEN None
    ELSE LET offset == BitAnd(address, 16383) \* 0x3FFF
             tag == IF ~b.manual_bank_logic /\ offset = address THEN 0 ELSE b.rom_bank
             rom_address == BitOr(ShlUsize(tag, 14), offset)
         IN  VecGet(b.rom, rom_address)

\* BankedRom::set_mem_bank; the remainder panics when there is no RAM bank
BankedRom_set_mem_bank_panics(b) == b.ram.len \div RAM_BANK_SIZE = 0

BankedRom_set_mem_bank(b, bank) ==
    LET bank_count == b.ram.len \div RAM_BANK_SIZE
    IN  [b EXCEPT !.ram_bank = bank % bank_count]

BankedRom_read_mem(b, address) ==
    IF address >= 8192 \* 0x2000
    THEN None
    ELSE LET offset == BitAnd(address, 8191) \* 0x1FFF
             ram_address == BitOr(ShlUsize(b.ram_bank, 13), offset)
         IN  VecGet(b.ram, ram_address)

\* BankedRom::write_mem: [st |-> container after the call, res |-> result]
BankedRom_write_mem(b, address, value) ==
    IF address >= 8192 \* 0x2000
    THEN [st |-> b, res |-> Err]
    ELSE LET offset == BitAnd(address, 8191) \* 0x1FFF
             ram_address == BitOr(ShlUsize(b.ram_bank, 13), offset)
             old == VecGet(b.ram, ram_address)
         IN  IF old.tag = "None"
             THEN [st |-> b, res |-> Err]
             ELSE [st |-> [b EXCEPT !.ram = VecSet(b.ram, ram_address, value)],
                   res |-> Ok(old.val)]

\* load_save that copies the file without looking at the battery
BankedRom_load_save_any_battery(b, save_data) ==
    IF Len(save_data) > b.ram.len
    THEN [st |-> b, res |-> SaveFileTooBig]
    ELSE [st |-> [b EXCEPT !.ram = VecCopyFromSlice(b.ram, save_data)], res |-> OkUnit]

BankedRom_load_save(b, save_data) ==
    IF ~b.has_battery
    THEN [st |-> b, res |-> SavesNotSupported]
    ELSE IF Len(save_data) > b.ram.len
    THEN [st |-> b, res |-> SaveFileTooBig]
    ELSE [st |-> [b EXCEPT !.ram = VecCopyFromSlice(b.ram, save_data)], res |-> OkUnit]

BankedRom_save(b) == b.ram

-----------------------------------------------------------------------------
(* memory/cartridge/mbc1.rs *)

\* impl From<u8> for StorageMode
StorageMode_from(value) == IF value % 2 = 0 THEN "ROM" ELSE "RAM"

\* BankedRom::new(..)? hands its error on
MBC1_new(rom, rom_banks, ram_banks, has_battery) ==
    LET banked == BankedRom_new(rom, rom_banks, ram_banks, has_battery, TRUE)
    IN  IF banked.tag # "Ok"
        THEN banked
        ELSE Ok([kind |-> "MBC1",
                 rom |-> banked.val,
                 storage_mode |-> "ROM",
                 ram_bank |-> 0,
                 rom_bank |-> 1,
                 ram_enabled |-> FALSE,
                 extra_storage |-> rom_banks > 32])

\* fault: a masked bank number of 0 is kept
MBC1_set_lower_rom_bank_unforced(c, data) ==
    [c EXCEPT !.rom_bank = BitAnd(data, 31)]

MBC1_set_lower_rom_bank(c, data) ==
    LET masked == BitAnd(data, 31) \* 0x1F
    IN  [c EXCEPT !.rom_bank = IF masked = 0 THEN masked + 1 ELSE masked]

MBC1_set_ram_bank(c, data) == [c EXCEPT !.ram_bank = BitAnd(data, 3)]

\* fault: the RAM bank register is used in either storage mode
MBC1_get_mem_bank_any_mode(c) == c.ram_bank

MBC1_get_mem_bank(c) == IF c.storage_mode = "ROM" THEN 0 ELSE c.ram_bank

\* fault: the low window follows the ROM bank register of a small cartridge
MBC1_read_rom_bank_unlocked(c, address) ==
    LET first_half == address < ROM_BANK_SIZE
    IN  IF c.extra_storage
        THEN IF first_half
             THEN IF c.storage_mode = "RAM" THEN ShlU8(c.ram_bank, 5) ELSE 0
             ELSE BitOr(ShlU8(c.ram_bank, 5), BitAnd(c.rom_bank, 31))
        ELSE c.rom_bank

\* fault: the high window of a large cartridge ignores the upper bank bits
MBC1_read_rom_bank_low_bits(c, address) ==
    LET first_half == address < ROM_BANK_SIZE
    IN  IF first_half /\ c.storage_mode = "RAM" /\ c.extra_storage
        THEN ShlU8(c.ram_bank, 5)
        ELSE IF first_half
        THEN 0
        ELSE c.rom_bank

\* the bank MBC1::read_rom hands to BankedRom::set_rom_bank
MBC1_read_rom_bank(c, address) ==
    LET first_half == address < ROM_BANK_SIZE
    IN  IF first_half /\ c.storage_mode = "RAM" /\ c.extra_storage
        THEN ShlU8(c.ram_bank, 5)
        ELSE IF first_half
        THEN 0
        ELSE IF c.extra_storage
        THEN BitOr(ShlU8(c.ram_bank, 5), BitAnd(c.rom_bank, 31))
        ELSE c.rom_bank

\* MBC1::read_rom: the container's rom_bank is set through the RefCell
MBC1_read_rom(c, address) ==
    IF BankedRom_set_rom_bank_panics(c.rom)
    THEN [st |-> c, res |-> Panic]
    ELSE LET rom == BankedRom_set_rom_bank(c.rom, MBC1_read_rom_bank(c, address))
         IN  [st |-> [c EXCEPT !.rom = rom], res |-> BankedRom_read_rom(rom, address)]

\* fault: RAM is enabled by the whole byte 0x0A only
MBC1_write_rom_whole_byte(c, address, data) ==
    IF address <= 8191
    THEN [st |-> [c EXCEPT !.ram_enabled = (data = 10)], res |-> OkUnit]
    ELSE IF address <= 16383
    THEN [st |-> MBC1_set_lower_rom_bank(c, data), res |-> OkUnit]
    ELSE IF address <= 24575
    THEN [st |-> MBC1_set_ram_bank(c, data), res |-> OkUnit]
    ELSE IF address <= 32767
    THEN [st |-> [c EXCEPT !.storage_mode = StorageMode_from(data)], res |-> OkUnit]
    ELSE [st |-> c, res |-> Err]

MBC1_write_rom(c, address, data) ==
    IF address <= 8191 \* 0x0000 ..= 0x1FFF
    THEN [st |-> [c EXCEPT !.ram_enabled = (BitAnd(data, 15) = 10)], res |-> OkUnit]
    ELSE IF address <= 16383 \* 0x2000 ..= 0x3FFF
    THEN [st |-> MBC1_set_lower_rom_bank(c, data), res |-> OkUnit]
    ELSE IF address <= 24575 \* 0x4000 ..= 0x5FFF
    THEN [st |-> MBC1_set_ram_bank(c, data), res |-> OkUnit]
    ELSE IF address <= 32767 \* 0x6000 ..= 0x7FFF
    THEN [st |-> [c EXCEPT !.storage_mode = StorageMode_from(data)], res |-> OkUnit]
    ELSE [st |-> c, res |-> Err]

MBC1_read_mem(c, address) ==
    IF ~c.ram_enabled
    THEN [st |-> c, res |-> Some(255)]
    ELSE IF BankedRom_set_mem_bank_panics(c.rom)
    THEN [st |-> c, res |-> Panic]
    ELSE LET rom == BankedRom_set_mem_bank(c.rom, MBC1_get_mem_bank(c))
         IN  [st |-> [c EXCEPT !.rom = rom], res |-> BankedRom_read_mem(rom, address)]

MBC1_write_mem(c, address, data) ==
    IF ~c.ram_enabled
    THEN [st |-> c, res |-> Ok(0)]
    ELSE IF BankedRom_set_mem_bank_panics(c.rom)
    THEN [st |-> c, res |-> Panic]
    ELSE LET rom == BankedRom_set_mem_bank(c.rom, MBC1_get_mem_bank(c))
             w == BankedRom_write_mem(rom, address, data)
         IN  [st |-> [c EXCEPT !.rom = w.st], res |-> w.res]

MBC1_load_save(c, save_data) ==
    LET r == BankedRom_load_save(c.rom, save_data)
    IN  [st |-> [c EXCEPT !.rom = r.st], res |-> r.res]

MBC1_save(c) == BankedRom_save(c.rom)

-----------------------------------------------------------------------------
(* memory/cartridge/mbc2.rs *)

MBC2_MEM_SIZE == 512

\* BankedRom::new(..)? hands its error on
MBC2_create(rom, rom_banks, has_battery) ==
    LET banked == BankedRom_new(rom, rom_banks, 0, FALSE, FALSE)
    IN  IF banked.tag # "Ok"
        THEN banked
        ELSE Ok([kind |-> "MBC2",
                 rom |-> banked.val,
                 ram |-> VecZero(MBC2_MEM_SIZE),
                 ram_enabled |-> FALSE,
                 has_battery |-> has_battery])

MBC2_read_rom(c, address) == [st |-> c, res |-> BankedRom_read_rom(c.rom, address)]

\* the bank MBC2::write_rom hands to BankedRom::set_rom_bank
MBC2_write_rom_bank(data) ==
    LET bank == BitAnd(data, 31) \* 0x1F
    IN  IF bank # 0 THEN bank ELSE 1

MBC2_write_rom(c, address, data) ==
    IF address > 32767 \* 0x7FFF
    THEN [st |-> c, res |-> Err]
    ELSE IF address >= ROM_BANK_SIZE
    THEN [st |-> c, res |-> OkUnit]
    ELSE IF BitAnd(address, 256) = 0 \* 0x0100
    THEN [st |-> [c EXCEPT !.ram_enabled = (data = 10)], res |-> OkUnit]
    ELSE IF BankedRom_set_rom_bank_panics(c.rom)
    THEN [st |-> c, res |-> Panic]
    ELSE [st |-> [c EXCEPT !.rom = BankedRom_set_rom_bank(c.rom, MBC2_write_rom_bank(data))],
          res |-> OkUnit]

MBC2_read_mem(c, address) ==
    LET a == BitAnd(address, 511) \* 0x1FF
    IN  [st |-> c, res |-> IF c.ram_enabled THEN VecGet(c.ram, a) ELSE Some(255)]

\* fault: the whole byte is stored
MBC2_write_mem_whole_byte(c, address, data) ==
    IF ~c.ram_enabled
    THEN [st |-> c, res |-> Ok(255)]
    ELSE LET a == BitAnd(address, 511)
             old == VecGet(c.ram, a)
         IN  IF old.tag = "None"
             THEN [st |-> c, res |-> Err]
             ELSE [st |-> [c EXCEPT !.ram = VecSet(c.ram, a, data)],
                   res |-> Ok(old.val)]

\* fault: a write to disabled RAM answers like the MBC1 one, with 0
MBC2_write_mem_disabled_zero(c, address, data) ==
    IF ~c.ram_enabled
    THEN [st |-> c, res |-> Ok(0)]
    ELSE LET a == BitAnd(address, 511)
             old == VecGet(c.ram, a)
         IN  IF old.tag = "None"
             THEN [st |-> c, res |-> Err]
             ELSE [st |-> [c EXCEPT !.ram = VecSet(c.ram, a, BitAnd(data, 15))],
                   res |-> Ok(old.val)]

MBC2_write_mem(c, address, data) ==
    IF ~c.ram_enabled
    THEN [st |-> c, res |-> Ok(255)]
    ELSE LET a == BitAnd(address, 511) \* 0x1FF
             old == VecGet(c.ram, a)
         IN  IF old.tag = "None"
             THEN [st |-> c, res |-> Err]
             ELSE [st |-> [c EXCEPT !.ram = VecSet(c.ram, a, BitAnd(data, 15))],
                   res |-> Ok(old.val)]

\* MBC2::load_save; save_data is a sequence of bytes, index 0 first
MBC2_load_save(c, save_data) ==
    IF ~c.has_battery
    THEN [st |-> c, res |-> SavesNotSupported]
    ELSE IF Len(save_data) > MBC2_MEM_SIZE
    THEN [st |-> c, res |-> SaveFileTooBig]
    ELSE LET idxs == 0 .. (Len(save_data) - 1)
             keep == {j \in DOMAIN c.ram.nz : j \notin idxs}
             set == {j \in idxs : BitAnd(save_data[j + 1], 15) # 0}
         IN  [st |-> [c EXCEPT !.ram.nz =
                        [j \in keep \cup set |->
                            IF j \in idxs THEN BitAnd(save_data[j + 1], 15)
                                          ELSE c.ram.nz[j]]],
              res |-> OkUnit]

MBC2_save(c) == c.ram

-----------------------------------------------------------------------------
(* memory/rtc.rs.  An Instant is the wall clock's reading in whole seconds; *)
(* last_modified.elapsed().as_secs() is now - last_modified.               *)

RealTimeClock_new(secs, mins, hrs, days_lower, days_upper, t) ==
    [last_modified |-> t,
     seconds |-> secs, minutes |-> mins, hours |-> hrs,
     days_lower |-> days_lower, days_upper |-> days_upper,
     halted |-> BitAnd(days_upper, 64) # 0] \* 0x40

\* create_days_upper with the carry taken from the day count alone
RealTimeClock_create_days_upper_fresh_carry(r, total_days) ==
    LET carry == ShlU8(IF total_days >= 512 THEN 1 ELSE 0, 7)
        halted == ShlU8(IF r.halted THEN 1 ELSE 0, 6)
        days_bit == BitAnd(total_days \div 256, 1)
        middle_bits == BitAnd(r.days_upper, 62)
    IN  BitOr(BitOr(carry, halted), BitOr(middle_bits, days_bit))

RealTimeClock_create_days_upper(r, total_days) ==
    LET carry == BitOr(ShlU8(IF total_days >= 512 THEN 1 ELSE 0, 7),
                       BitAnd(r.days_upper, 128))
        halted == ShlU8(IF r.halted THEN 1 ELSE 0, 6)
        days_bit == BitAnd(total_days \div 256, 1)
        middle_bits == BitAnd(r.days_upper, 62) \* 0x3E
    IN  BitOr(BitOr(carry, halted), BitOr(middle_bits, days_bit))

RealTimeClock_update_time(r, t) ==
    IF r.halted
    THEN r
    ELSE LET current_seconds ==
                 ((ShlUsize(BitAnd(r.days_upper, 1), 8) + r.days_lower) * 86400)
                 + (r.hours * 3500) + (r.minutes * 60) + r.seconds
             total_seconds == t - r.last_modified
             updated_seconds == current_seconds + total_seconds
             total_days == updated_seconds \div 86400
         IN  [r EXCEPT !.seconds = updated_seconds % 60,
                       !.minutes = (updated_seconds \div 60) % 60,
                       !.hours = (updated_seconds \div 3600) % 24,
                       !.days_lower = total_days % 256,
                       !.days_upper = RealTimeClock_create_days_upper(r, total_days),
                       !.last_modified = t]

RealTimeClock_get_seconds(r, t) ==
    IF r.halted THEN r.seconds ELSE (r.seconds + (t - r.last_modified)) % 60

RealTimeClock_get_minutes(r, t) ==
    IF r.halted THEN r.minutes ELSE (r.minutes + ((t - r.last_modified) \div 60)) % 60

RealTimeClock_get_hours(r, t) ==
    IF r.halted THEN r.hours ELSE (r.hours + ((t - r.last_modified) \div 3600)) % 24

\* u8 + u8: the sum panics (-1) in a build with overflow checks and wraps
\* in one without
RealTimeClock_get_days_lower(r, t, checks) ==
    IF r.halted
    THEN r.days_lower
    ELSE LET days_passed == (t - r.last_modified) \div 86400
             sum == r.days_lower + (days_passed % 256)
         IN  IF sum > 255 /\ checks THEN -1 ELSE sum % 256

\* get_days_upper returning the stored register whether halted or not
RealTimeClock_get_days_upper_stored(r, t) ==
    r.days_upper

RealTimeClock_get_days_upper(r, t) ==
    IF r.halted
    THEN r.days_upper
    ELSE LET days_passed == (t - r.last_modified) \div 86400
             total_days == r.days_lower + ShlUsize(BitAnd(r.days_upper, 1), 8)
                           + days_passed
         IN  RealTimeClock_create_days_upper(r, total_days)

RealTimeClock_set_seconds(r, value, t) ==
    LET u == RealTimeClock_update_time(r, t)
    IN  [st |-> [u EXCEPT !.seconds = value], res |-> u.seconds]

RealTimeClock_set_minutes(r, value, t) ==
    LET u == RealTimeClock_update_time(r, t)
    IN  [st |-> [u EXCEPT !.minutes = value], res |-> u.minutes]

RealTimeClock_set_hours(r, value, t) ==
    LET u == RealTimeClock_update_time(r, t)
    IN  [st |-> [u EXCEPT !.hours = value], res |-> u.hours]

RealTimeClock_set_days_lower(r, value, t) ==
    LET u == RealTimeClock_update_time(r, t)
    IN  [st |-> [u EXCEPT !.days_lower = value], res |-> u.days_lower]

RealTimeClock_set_days_upper(r, value, t) ==
    LET u == RealTimeClock_update_time(r, t)
        halted == BitAnd(value, 64) # 0 \* 0x40
    IN  [st |-> [u EXCEPT !.days_upper = value,
                          !.last_modified = IF u.halted /\ ~halted
                                            THEN t ELSE u.last_modified,
                          !.halted = halted],
         res |-> u.days_upper]

\* RealTimeClock::latch is called by MBC3::write_rom and is not defined in
\* memory/rtc.rs; it follows the latch semantics of the specification (the
\* clock of memory/rtc.rs keeps no seconds_since_latch, which is 0 there).
RealTimeClock_latch(r, t) ==
    LET days == BitOr(ShlUsize(BitAnd(r.days_upper, 1), 8), r.days_lower)
        current == (days * 86400) + (r.hours * 3600) + (r.minutes * 60) + r.seconds
        delta == IF r.halted THEN 0 ELSE t - r.last_modified
        total == current + delta
        total_days == total \div 86400
    IN  [r EXCEPT !.seconds = total % 60,
                  !.minutes = (total \div 60) % 60,
                  !.hours = (total \div 3600) % 24,
                  !.days_lower = BitAnd(total_days, 255),
                  !.days_upper = RealTimeClock_create_days_upper(r, total_days),
                  !.last_modified = t]

-----------------------------------------------------------------------------
(* memory/cartridge/mbc3.rs *)

\* BankedRom::new(..)? hands its error on
MBC3_new(rom, rom_banks, ram_banks, has_battery, rtc) ==
    LET banked == BankedRom_new(rom, rom_banks, ram_banks, has_battery, FALSE)
    IN  IF banked.tag # "Ok"
        THEN banked
        ELSE Ok([kind |-> "MBC3",
                 rom |-> banked.val,
                 ram_enabled |-> FALSE,
                 ram_bank |-> 1,
                 rtc |-> rtc,
                 latching |-> FALSE])

MBC3_read_rom(c, address) == [st |-> c, res |-> BankedRom_read_rom(c.rom, address)]

\* the 0x6000..=0x7FFF arm of MBC3::write_rom
MBC3_write_latch(c, data, t) ==
    IF data = 0
    THEN [st |-> [c EXCEPT !.latching = TRUE], res |-> OkUnit]
    ELSE IF data = 1 /\ c.latching
    THEN IF c.rtc.tag = "None"
         THEN [st |-> c, res |-> Err]
         ELSE [st |-> [c EXCEPT !.rtc = Some(RealTimeClock_latch(c.rtc.val, t)),
                                !.latching = FALSE],
               res |-> OkUnit]
    ELSE [st |-> [c EXCEPT !.latching = FALSE], res |-> OkUnit]

\* fault: RAM is enabled by a low nibble of 0xA, as on the MBC1
MBC3_write_rom_low_nibble(c, address, data, t) ==
    IF address <= 8191
    THEN [st |-> [c EXCEPT !.ram_enabled = (BitAnd(data, 15) = 10)], res |-> OkUnit]
    ELSE IF address <= 16383
    THEN IF BankedRom_set_rom_bank_panics(c.rom)
         THEN [st |-> c, res |-> Panic]
         ELSE [st |-> [c EXCEPT !.rom = BankedRom_set_rom_bank(c.rom, BitAnd(data, 127))],
               res |-> OkUnit]
    ELSE IF address <= 24575
    THEN LET c1 == [c EXCEPT !.ram_bank = BitAnd(data, 15)]
         IN  IF BankedRom_set_mem_bank_panics(c1.rom)
             THEN [st |-> c1, res |-> Panic]
             ELSE [st |-> [c1 EXCEPT !.rom = BankedRom_set_mem_bank(c1.rom, c1.ram_bank)],
                   res |-> OkUnit]
    ELSE IF address <= 32767
    THEN MBC3_write_latch(c, data, t)
    ELSE [st |-> c, res |-> Err]

\* fault: a bank number of 0 is replaced by 1, as on the MBC1
MBC3_write_rom_forced(c, address, data, t) ==
    IF address <= 8191
    THEN [st |-> [c EXCEPT !.ram_enabled = (data = 160)], res |-> OkUnit]
    ELSE IF address <= 16383
    THEN IF BankedRom_set_rom_bank_panics(c.rom)
         THEN [st |-> c, res |-> Panic]
         ELSE [st |-> [c EXCEPT !.rom =
                        BankedRom_set_rom_bank(c.rom,
                            IF BitAnd(data, 127) = 0 THEN 1 ELSE BitAnd(data, 127))],
               res |-> OkUnit]
    ELSE IF address <= 24575
    THEN LET c1 == [c EXCEPT !.ram_bank = BitAnd(data, 15)]
         IN  IF BankedRom_set_mem_bank_panics(c1.rom)
             THEN [st |-> c1, res |-> Panic]
             ELSE [st |-> [c1 EXCEPT !.rom = BankedRom_set_mem_bank(c1.rom, c1.ram_bank)],
                   res |-> OkUnit]
    ELSE IF address <= 32767
    THEN MBC3_write_latch(c, data, t)
    ELSE [st |-> c, res |-> Err]

MBC3_write_rom(c, address, data, t) ==
    IF address <= 8191 \* 0 ..= 0x1FFF
    THEN [st |-> [c EXCEPT !.ram_enabled = (data = 160)], res |-> OkUnit] \* 0xA0
    ELSE IF address <= 16383 \* 0x2000 ..= 0x3FFF
    THEN IF BankedRom_set_rom_bank_panics(c.rom)
         THEN [st |-> c, res |-> Panic]
         ELSE [st |-> [c EXCEPT !.rom = BankedRom_set_rom_bank(c.rom, BitAnd(data, 127))],
               res |-> OkUnit]
    ELSE IF address <= 24575 \* 0x4000 ..= 0x5FFF
    THEN LET c1 == [c EXCEPT !.ram_bank = BitAnd(data, 15)]
         IN  IF BankedRom_set_mem_bank_panics(c1.rom)
             THEN [st |-> c1, res |-> Panic]
             ELSE [st |-> [c1 EXCEPT !.rom = BankedRom_set_mem_bank(c1.rom, c1.ram_bank)],
                   res |-> OkUnit]
    ELSE IF address <= 32767 \* 0x6000 ..= 0x7FFF
    THEN MBC3_write_latch(c, data, t)
    ELSE [st |-> c, res |-> Err]

\* Some(self.rtc.as_ref()?.get_X()), for the register selected by ram_bank
MBC3_read_rtc(c, t, checks) ==
    IF c.rtc.tag = "None"
    THEN None
    ELSE LET r == c.rtc.val
             v == CASE c.ram_bank = 8 -> RealTimeClock_get_seconds(r, t)
                    [] c.ram_bank = 9 -> RealTimeClock_get_minutes(r, t)
                    [] c.ram_bank = 10 -> RealTimeClock_get_hours(r, t)
                    [] c.ram_bank = 11 -> RealTimeClock_get_days_lower(r, t, checks)
                    [] c.ram_bank = 12 -> RealTimeClock_get_days_upper(r, t)
         IN  IF v < 0 THEN Panic ELSE Some(v)

MBC3_read_mem(c, address, t, checks) ==
    IF ~c.ram_enabled
    THEN [st |-> c, res |-> Some(255)]
    ELSE IF c.ram_bank <= 3
    THEN [st |-> c, res |-> BankedRom_read_mem(c.rom, address)]
    ELSE IF c.ram_bank >= 8 /\ c.ram_bank <= 12
    THEN [st |-> c, res |-> MBC3_read_rtc(c, t, checks)]
    ELSE [st |-> c, res |-> None]

\* Ok(self.rtc.as_mut().ok_or(MemoryWriteError)?.set_X(data))
MBC3_write_rtc(c, data, t) ==
    IF c.rtc.tag = "None"
    THEN [st |-> c, res |-> Err]
    ELSE LET r == c.rtc.val
             w == CASE c.ram_bank = 8 -> RealTimeClock_set_seconds(r, data, t)
                    [] c.ram_bank = 9 -> RealTimeClock_set_minutes(r, data, t)
                    [] c.ram_bank = 10 -> RealTimeClock_set_hours(r, data, t)
                    [] c.ram_bank = 11 -> RealTimeClock_set_days_lower(r, data, t)
                    [] c.ram_bank = 12 -> RealTimeClock_set_days_upper(r, data, t)
         IN  [st |-> [c EXCEPT !.rtc = Some(w.st)], res |-> Ok(w.res)]

MBC3_write_mem(c, address, data, t) ==
    IF ~c.ram_enabled
    THEN [st |-> c, res |-> Ok(255)]
    ELSE IF c.ram_bank <= 3
    THEN LET w == BankedRom_write_mem(c.rom, address, data)
         IN  [st |-> [c EXCEPT !.rom = w.st], res |-> w.res]
    ELSE IF c.ram_bank >= 8 /\ c.ram_bank <= 12
    THEN MBC3_write_rtc(c, data, t)
    ELSE [st |-> c, res |-> Err]

MBC3_load_save(c, save_data) ==
    LET r == BankedRom_load_save(c.rom, save_data)
    IN  [st |-> [c EXCEPT !.rom = r.st], res |-> r.res]

MBC3_save(c) == BankedRom_save(c.rom)

-----------------------------------------------------------------------------
(* memory/cartridge/basicrom.rs *)

ROM_SIZE == 32768
RAM_SIZE == 8192

\* RomOnlyCartridge::new.  The length test is made on the ROM_SIZE array, not
\* on rom_data, so it never refuses: the slice rom[0..rom_data.len()] of a
\* longer image is out of range and panics
RomOnlyCartridge_new(rom_data, has_ram, has_battery) ==
    IF rom_data.len > ROM_SIZE
    THEN Panic
    ELSE Ok([kind |-> "RomOnly",
             rom |-> [len |-> ROM_SIZE, nz |-> rom_data.nz],
             ram |-> IF has_ram THEN Some(VecZero(RAM_SIZE)) ELSE None,
             has_battery |-> has_battery])

RomOnlyCartridge_read_rom(c, address) == [st |-> c, res |-> VecGet(c.rom, address)]

RomOnlyCartridge_write_rom(c, address, data) == [st |-> c, res |-> Err]

RomOnlyCartridge_read_mem(c, address) ==
    [st |-> c, res |-> IF c.ram.tag = "None" THEN None ELSE VecGet(c.ram.val, address)]

RomOnlyCartridge_write_mem(c, address, data) ==
    IF c.ram.tag = "None"
    THEN [st |-> c, res |-> Err]
    ELSE IF VecGet(c.ram.val, address).tag = "None"
    THEN [st |-> c, res |-> Err]
    ELSE [st |-> [c EXCEPT !.ram = Some(VecSet(c.ram.val, address, data))],
          res |-> Ok(VecGet(c.ram.val, address).val)]

RomOnlyCartridge_load_save(c, save_data) ==
    IF ~c.has_battery
    THEN [st |-> c, res |-> SavesNotSupported]
    ELSE IF c.ram.tag = "None"
    THEN [st |-> c, res |-> SavesNotSupported]
    ELSE IF c.ram.val.len < Len(save_data)
    THEN [st |-> c, res |-> SaveFileTooBig]
    ELSE [st |-> [c EXCEPT !.ram = Some(VecCopyFromSlice(c.ram.val, save_data))],
          res |-> OkUnit]

RomOnlyCartridge_save(c) == IF c.ram.tag = "None" THEN VecZero(0) ELSE c.ram.val

-----------------------------------------------------------------------------
(* dyn CartridgeMapper: the call goes to the implementation of the variant *)

CartridgeMapper_read_rom(c, address) ==
    CASE c.kind = "MBC1" -> MBC1_read_rom(c, address)
      [] c.kind = "MBC2" -> MBC2_read_rom(c, address)
      [] c.kind = "MBC3" -> MBC3_read_rom(c, address)
      [] c.kind = "RomOnly" -> RomOnlyCartridge_read_rom(c, address)

CartridgeMapper_write_rom(c, address, data, t) ==
    CASE c.kind = "MBC1" -> MBC1_write_rom(c, address, data)
      [] c.kind = "MBC2" -> MBC2_write_rom(c, address, data)
      [] c.kind = "MBC3" -> MBC3_write_rom(c, address, data, t)
      [] c.kind = "RomOnly" -> RomOnlyCartridge_write_rom(c, address, data)

CartridgeMapper_read_mem(c, address, t, checks) ==
    CASE c.kind = "MBC1" -> MBC1_read_mem(c, address)
      [] c.kind = "MBC2" -> MBC2_read_mem(c, address)
      [] c.kind = "MBC3" -> MBC3_read_mem(c, address, t, checks)
      [] c.kind = "RomOnly" -> RomOnlyCartridge_read_mem(c, address)

CartridgeMapper_write_mem(c, address, data, t) ==
    CASE c.kind = "MBC1" -> MBC1_write_mem(c, address, data)
      [] c.kind = "MBC2" -> MBC2_write_mem(c, address, data)
      [] c.kind = "MBC3" -> MBC3_write_mem(c, address, data, t)
      [] c.kind = "RomOnly" -> RomOnlyCartridge_write_mem(c, address, data)

CartridgeMapper_load_save(c, save_data) ==
    CASE c.kind = "MBC1" -> MBC1_load_save(c, save_data)
      [] c.kind = "MBC2" -> MBC2_load_save(c, save_data)
      [] c.kind = "MBC3" -> MBC3_load_save(c, save_data)
      [] c.kind = "RomOnly" -> RomOnlyCartridge_load_save(c, save_data)

CartridgeMapper_save(c) ==
    CASE c.kind = "MBC1" -> MBC1_save(c)
      [] c.kind = "MBC2" -> MBC2_save(c)
      [] c.kind = "MBC3" -> MBC3_save(c)
      [] c.kind = "RomOnly" -> RomOnlyCartridge_save(c)

-----------------------------------------------------------------------------
(* The calls made on a cartridge.  Addresses and data are drawn from the   *)
(* ends of every address range the mappers distinguish and from data whose *)
(* masked and unmasked values differ.                                      *)

\* write_rom addresses: 0x0000 0x1FFF 0x2000 0x3FFF 0x4000 0x5FFF 0x6000 0x7FFF
\* 0x8000; for MBC2 (bit 8 decides): 0x0000 0x0100 0x20FF 0x3EFF 0x3FFF 0x4000
\* 0x7FFF 0x8000
WriteRomAddrs(kind) ==
    IF kind = "MBC2"
    THEN {0, 256, 8447, 16127, 16383, 16384, 32767, 32768}
    ELSE {0, 8191, 8192, 16383, 16384, 24575, 24576, 32767, 32768}

\* write_rom data.  MBC1: 0x00 0x03 0x1A 0x24 0xE0; MBC2: 0x00 0x0A 0x1A 0x30
\* 0xE0; MBC3, by the register the address selects: RAM enable 0x00 0x0A
\* 0xA0, ROM bank 0x00 0x05 0xA1, RAM bank 0x00 0x03 0x88 0x8C 0xFD, latch
\* 0x00 0x01 0x02, no register 0x00
WriteRomData(kind, address) ==
    CASE kind = "MBC1" -> {0, 3, 26, 36, 224}
      [] kind = "MBC2" -> {0, 10, 26, 48, 224}
      [] kind = "RomOnly" -> {0, 10}
      [] kind = "MBC3" ->
            IF address <= 8191 THEN {0, 10, 160}
            ELSE IF address <= 16383 THEN {0, 5, 161}
            ELSE IF address <= 24575 THEN {0, 3, 136, 140, 253}
            ELSE IF address <= 32767 THEN {0, 1, 2}
            ELSE {0}

\* read_rom addresses: 0x0000 0x3FFF 0x4000 0x7FFF 0x8000
ReadRomAddrs == {0, 16383, 16384, 32767, 32768}

\* read_mem / write_mem addresses.  0x1FFF 0x2000; for MBC2 (512 entries,
\* repeating): 0x0042 0x0442 0x01FF 0xFFFF
MemAddrs(kind) ==
    IF kind = "MBC2" THEN {66, 1090, 511, 65535} ELSE {8191, 8192}

\* write_mem data: 0x00 0x5A; for MBC2 (half bytes): 0x08 0x77; for MBC3 (clock
\* registers): 0x00 0x3B
WriteMemData(kind) ==
    CASE kind = "MBC1" -> {0, 90}
      [] kind = "MBC2" -> {8, 119}
      [] kind = "MBC3" -> {0, 59}
      [] kind = "RomOnly" -> {0, 90}

\* The ROM image handed to the constructor: rom_banks banks, every bank marked
\* at its first and last offset with a byte that names the bank
RomMark(i) == 2 * (i \div ROM_BANK_SIZE) + (i % 2) + 1

RomImage(rom_banks) ==
    [len |-> ROM_BANK_SIZE * rom_banks,
     nz |-> [i \in {(b * ROM_BANK_SIZE) + o : b \in 0 .. (rom_banks - 1),
                                              o \in {0, ROM_BANK_SIZE - 1}}
             |-> RomMark(i)]]

Call(name, address, data, result) ==
    [name |-> name, address |-> address, data |-> data, result |-> result]

ReadRom ==
    \E a \in ReadRomAddrs :
        LET r == CartridgeMapper_read_rom(cart, a)
        IN  /\ cart' = r.st
            /\ last' = Call("read_rom", a, 0, r.res)
            /\ UNCHANGED <<now, overflow_checks>>

WriteRom ==
    \E a \in WriteRomAddrs(cart.kind) : \E d \in WriteRomData(cart.kind, a) :
        LET r == CartridgeMapper_write_rom(cart, a, d, now)
        IN  /\ cart' = r.st
            /\ last' = Call("write_rom", a, d, r.res)
            /\ UNCHANGED <<now, overflow_checks>>

ReadMem ==
    \E a \in MemAddrs(cart.kind) :
        LET r == CartridgeMapper_read_mem(cart, a, now, overflow_checks)
        IN  /\ cart' = r.st
            /\ last' = Call("read_mem", a, 0, r.res)
            /\ UNCHANGED <<now, overflow_checks>>

WriteMem ==
    \E a \in MemAddrs(cart.kind), d \in WriteMemData(cart.kind) :
        LET r == CartridgeMapper_write_mem(cart, a, d, now)
        IN  /\ cart' = r.st
            /\ last' = Call("write_mem", a, d, r.res)
            /\ UNCHANGED <<now, overflow_checks>>

-----------------------------------------------------------------------------
(* MBC1 cartridges *)

\* <<ROM banks, RAM banks>> of the cartridges built
MBC1Configs == {<<0, 0>>, <<1, 2>>, <<4, 1>>, <<64, 0>>}

InitMBC1 ==
    /\ \E cfg \in MBC1Configs :
           cart = MBC1_new(RomImage(cfg[1]), cfg[1], cfg[2], TRUE).val
    /\ last = Call("new", 0, 0, OkUnit)
    /\ now = 0
    /\ overflow_checks = FALSE

NextMBC1 == ReadRom \/ WriteRom \/ ReadMem \/ WriteMem

SpecMBC1 == InitMBC1 /\ [][NextMBC1]_vars

-----------------------------------------------------------------------------
(* MBC2 cartridges *)

\* save files handed to load_save: empty, one byte 0xF5, three bytes
\* 0x12 0xF0 0xFF, and one byte more than the 512 entries
SaveFiles == {<<>>, <<245>>, <<18, 240, 255>>, [i \in 1 .. (MBC2_MEM_SIZE + 1) |-> 0]}

\* the bytes a cartridge's save holds
Capacity(c) == CartridgeMapper_save(c).len

\* save files handed to load_save of the other cartridges: empty, one byte
\* 0xF5, three bytes 0x12 0xF0 0xFF and, for a cartridge with 8 KiB of RAM, one
\* as long as the RAM that ends in 0x07 and one a byte longer
ShortSaveFiles == {<<>>, <<245>>, <<18, 240, 255>>}
BankSaveFiles ==
    ShortSaveFiles
    \cup {[i \in 1 .. RAM_BANK_SIZE |-> IF i = RAM_BANK_SIZE THEN 7 ELSE 0] \o <<>>,
          [i \in 1 .. (RAM_BANK_SIZE + 1) |-> 0] \o <<>>}

SaveFilesOf(c) ==
    IF c.kind = "MBC2" THEN SaveFiles
    ELSE IF Capacity(c) = RAM_BANK_SIZE THEN BankSaveFiles
    ELSE ShortSaveFiles

\* the address of a load_save call is the length of the file
LoadSave ==
    \E f \in SaveFilesOf(cart) :
        LET r == CartridgeMapper_load_save(cart, f)
        IN  /\ cart' = r.st
            /\ last' = Call("load_save", Len(f), 0, r.res)
            /\ UNCHANGED <<now, overflow_checks>>

Save ==
    /\ last' = Call("save", 0, 0, Saved(CartridgeMapper_save(cart)))
    /\ UNCHANGED <<cart, now, overflow_checks>>

\* <<ROM banks, has_battery>> of the cartridges built
MBC2Configs == {<<0, TRUE>>, <<1, TRUE>>, <<16, FALSE>>, <<32, TRUE>>}

InitMBC2 ==
    /\ \E cfg \in MBC2Configs :
           cart = MBC2_create(RomImage(cfg[1]), cfg[1], cfg[2]).val
    /\ last = Call("new", 0, 0, OkUnit)
    /\ now = 0
    /\ overflow_checks = FALSE

NextMBC2 == ReadRom \/ WriteRom \/ ReadMem \/ WriteMem \/ LoadSave

SpecMBC2 == InitMBC2 /\ [][NextMBC2]_vars

-----------------------------------------------------------------------------
(* MBC3 cartridges *)

\* the wall clock advances by an hour, a minute and a second at a time, up to
\* MaxNow
TickSteps == {3661}
MaxNow == 3661

Tick ==
    \E d \in TickSteps :
        /\ now + d <= MaxNow
        /\ now' = now + d
        /\ UNCHANGED <<cart, last, overflow_checks>>

\* the clocks handed to MBC3::new: none, and RealTimeClock::new(None, ..)
NoClock == None
FreshClock == Some(RealTimeClock_new(0, 0, 0, 0, 0, 0))

\* <<ROM banks, RAM banks, clock>> of the cartridges built
MBC3Configs == {<<0, 0, NoClock>>, <<2, 1, FreshClock>>, <<64, 4, NoClock>>}

InitMBC3 ==
    /\ now = 0
    /\ \E cfg \in MBC3Configs :
           cart = MBC3_new(RomImage(cfg[1]), cfg[1], cfg[2], TRUE, cfg[3]).val
    /\ last = Call("new", 0, 0, OkUnit)
    /\ overflow_checks = TRUE

NextMBC3 == ReadRom \/ WriteRom \/ ReadMem \/ WriteMem \/ Tick

SpecMBC3 == InitMBC3 /\ [][NextMBC3]_vars

-----------------------------------------------------------------------------
(* Cartridges of every variant and their save files *)

\* the cartridges built: RomOnlyCartridge with RAM and a battery, with RAM
\* alone, with a battery alone; MBC1, MBC2 and MBC3 of 2 ROM banks (and 1 RAM
\* bank), with and without a battery
CartridgesBuilt ==
    {RomOnlyCartridge_new(RomImage(2), TRUE, TRUE).val,
     RomOnlyCartridge_new(RomImage(2), TRUE, FALSE).val,
     RomOnlyCartridge_new(RomImage(2), FALSE, TRUE).val,
     MBC1_new(RomImage(2), 2, 1, TRUE).val, MBC1_new(RomImage(2), 2, 1, FALSE).val,
     MBC2_create(RomImage(2), 2, TRUE).val, MBC2_create(RomImage(2), 2, FALSE).val,
     MBC3_new(RomImage(2), 2, 1, TRUE, NoClock).val,
     MBC3_new(RomImage(2), 2, 1, FALSE, NoClock).val}

InitSave ==
    /\ cart \in CartridgesBuilt
    /\ last = Call("new", 0, 0, OkUnit)
    /\ now = 0
    /\ overflow_checks = FALSE

NextSave == WriteMem \/ LoadSave \/ Save

SpecSave == InitSave /\ [][NextSave]_vars

-----------------------------------------------------------------------------
(* Properties of MBC1 cartridges, checked under SpecMBC1 *)

RomBanks(c) == c.rom.rom.len \div ROM_BANK_SIZE
RamBanks(c) == c.rom.ram.len \div RAM_BANK_SIZE

\* the byte of the ROM image at an offset of a bank
RomByteAt(c, bank, offset) == VecGet(c.rom.rom, (bank * ROM_BANK_SIZE) + offset)

\* the addresses read in 0x4000 ..= 0x7FFF
HighWindowAddrs == {a \in ReadRomAddrs : a >= 16384 /\ a <= 32767}

\* res is a byte found at the offset in a bank other than 0 and not in bank 0
FromBankOtherThan0(c, offset, res) ==
    /\ res.tag = "Some"
    /\ res # RomByteAt(c, 0, offset)
    /\ \E k \in 1 .. (RomBanks(c) - 1) : res = RomByteAt(c, k, offset)

\* every read of the high window of cartridge c returns a byte of a bank
\* other than 0
AvoidsBank0(c) ==
    \A a \in HighWindowAddrs :
        FromBankOtherThan0(c, a - 16384, MBC1_read_rom(c, a).res)

\* the step is a write to the ROM bank register 0x2000 ..= 0x3FFF
IsRomBankWrite(l) == l.name = "write_rom" /\ l.address >= 8192 /\ l.address <= 16383

\* For a cartridge of min_banks to 32 ROM banks: a write whose low five bits
\* are 0 leaves the cartridge avoiding bank 0, every step but a write to the
\* bank register keeps it so, and a read of the high window made meanwhile
\* returns a byte of a bank other than 0
ForcedBankStep(min_banks) ==
    (cart.kind = "MBC1" /\ RomBanks(cart) >= min_banks /\ RomBanks(cart) <= 32) =>
        /\ (IsRomBankWrite(last') /\ BitAnd(last'.data, 31) = 0) => AvoidsBank0(cart')
        /\ (~IsRomBankWrite(last') /\ cart' # cart /\ AvoidsBank0(cart))
           => AvoidsBank0(cart')
        /\ (last'.name = "read_rom" /\ last'.address \in HighWindowAddrs
                /\ AvoidsBank0(cart))
           => FromBankOtherThan0(cart, last'.address - 16384, last'.result)

\* C1, as amended: on an MBC1 cartridge of 2 to 32 ROM banks, after a write to
\* 0x2000..=0x3FFF of a value whose low five bits are 0, every read of
\* 0x4000..=0x7FFF returns a byte of a bank other than 0, until the next write
\* to that region
C1_ForcedBankAvoidsBank0 == [][ForcedBankStep(2)]_vars

\* C1, as stated: the same for every cartridge that holds a ROM of at most 32
\* banks, the one of a single bank included
C1_AsStated == [][ForcedBankStep(1)]_vars

\* C1: a 4-bank cartridge after the write of 0xE0 to the bank register, the
\* high window reading bank 1
C1_Witness ==
    /\ cart.kind = "MBC1" /\ RomBanks(cart) = 4
    /\ IsRomBankWrite(last) /\ last.data = 224
    /\ cart.rom_bank = 1
    /\ AvoidsBank0(cart)

\* C2: on an MBC1 cartridge of at most 32 ROM banks a read of an address below
\* 0x4000 returns the byte at that offset of bank 0, whatever the registers
\* hold (a cartridge without ROM has no bank 0 to read)
C2_LowWindowIsBank0 ==
    (cart.kind = "MBC1" /\ RomBanks(cart) >= 1 /\ RomBanks(cart) <= 32
        /\ last.name = "read_rom" /\ last.address < 16384)
    => /\ last.result.tag = "Some"
       /\ last.result = RomByteAt(cart, 0, last.address)

\* C2: a low-window read of a 4-bank cartridge in RAM mode with both bank
\* registers set
C2_Witness ==
    /\ cart.kind = "MBC1" /\ RomBanks(cart) = 4
    /\ cart.storage_mode = "RAM" /\ cart.ram_bank = 3 /\ cart.rom_bank = 3
    /\ last.name = "read_rom" /\ last.address = 16383
    /\ last.result = Some(RomMark(16383))

\* C3, as stated: on an MBC1 cartridge of more than 32 ROM banks a read of the
\* high window returns the byte at offset (address & 0x3FFF) of bank
\* ((bank_high << 5) | rom_bank_low) modulo the bank count, and a read of the
\* low window the byte of bank (bank_high << 5) in RAM mode and of bank 0 in
\* ROM mode
C3_AsStated ==
    (cart.kind = "MBC1" /\ RomBanks(cart) > 32
        /\ last.name = "read_rom" /\ last.address < 32768)
    => LET high == (cart.ram_bank * 32) + cart.rom_bank
           low == IF cart.storage_mode = "RAM" THEN cart.ram_bank * 32 ELSE 0
       IN  /\ last.result.tag = "Some"
           /\ last.address >= 16384 =>
                last.result = RomByteAt(cart, high % RomBanks(cart),
                                        last.address - 16384)
           /\ last.address < 16384 =>
                last.result = RomByteAt(cart, low, last.address)

\* C3, as amended: on an MBC1 cartridge of more than 32 ROM banks a read of
\* the high window returns the byte at offset (address & 0x3FFF) of bank
\* ((bank_high << 5) | rom_bank_low) modulo the bank count, and a read of the
\* low window the byte of bank (bank_high << 5), modulo the bank count as
\* well, in RAM mode and of bank 0 in ROM mode
C3_LargeCartridgeWindows ==
    (cart.kind = "MBC1" /\ RomBanks(cart) > 32
        /\ last.name = "read_rom" /\ last.address < 32768)
    => LET high == (cart.ram_bank * 32) + cart.rom_bank
           low == IF cart.storage_mode = "RAM" THEN cart.ram_bank * 32 ELSE 0
       IN  /\ last.result.tag = "Some"
           /\ last.address >= 16384 =>
                last.result = RomByteAt(cart, high % RomBanks(cart),
                                        last.address - 16384)
           /\ last.address < 16384 =>
                last.result = RomByteAt(cart, low % RomBanks(cart), last.address)

\* C3: a 64-bank cartridge in RAM mode with bank_high 3 and rom_bank_low 26,
\* just read in the low window, bank 96 % 64 = 32, and reading bank
\* (96 | 26) % 64 = 58 in the high window
C3_Witness ==
    /\ cart.kind = "MBC1" /\ RomBanks(cart) = 64
    /\ cart.storage_mode = "RAM" /\ cart.ram_bank = 3 /\ cart.rom_bank = 26
    /\ last.name = "read_rom" /\ last.address = 16383
    /\ last.result = Some(RomMark((32 * ROM_BANK_SIZE) + 16383))
    /\ MBC1_read_rom(cart, 32767).res = Some(RomMark((58 * ROM_BANK_SIZE) + 16383))

\* the step is a write to the RAM enable register 0x0000 ..= 0x1FFF
IsRamEnableWrite(l) == l.name = "write_rom" /\ l.address <= 8191

\* the RAM gate follows the writes to the enable register: such a write sets
\* it to enabling(data), no other step changes it
GateFollowsWrites(enabling(_)) ==
    /\ IsRamEnableWrite(last') => (cart'.ram_enabled <=> enabling(last'.data))
    /\ ~IsRamEnableWrite(last') => (cart'.ram_enabled <=> cart.ram_enabled)

MBC1_enabling(data) == BitAnd(data, 15) = 10

\* C4: on an MBC1 cartridge ram_enabled is false after construction and
\* otherwise what the most recent write to 0x0000..=0x1FFF made it, true
\* exactly for (data & 0x0F) = 0x0A; while it is false read_mem returns
\* Some(0xFF) and write_mem returns Ok(0) and leaves the RAM as it was
C4_RamGate ==
    [][cart.kind = "MBC1" =>
        /\ last.name = "new" => ~cart.ram_enabled
        /\ GateFollowsWrites(MBC1_enabling)
        /\ (~cart.ram_enabled /\ last'.name = "read_mem")
           => (last'.result = Some(255) /\ cart'.rom.ram = cart.rom.ram)
        /\ (~cart.ram_enabled /\ last'.name = "write_mem")
           => (last'.result = Ok(0) /\ cart'.rom.ram = cart.rom.ram)]_vars

\* C4: a write of 0x5A answered with Ok(0) by a cartridge whose RAM, written
\* while enabled, has been disabled again
C4_Witness ==
    /\ cart.kind = "MBC1" /\ RamBanks(cart) >= 1
    /\ ~cart.ram_enabled
    /\ cart.rom.ram.nz # <<>>
    /\ last.name = "write_mem" /\ last.address = 8191 /\ last.data = 90
    /\ last.result = Ok(0)
    /\ VecGet(cart.rom.ram, 8191) = Some(0)

\* the step is a write to the bank_high register 0x4000 ..= 0x5FFF
IsBankHighWrite(l) == l.name = "write_rom" /\ l.address >= 16384 /\ l.address <= 24575

\* C5: bank_high is the low two bits of the most recent write to
\* 0x4000..=0x5FFF; with RAM enabled, read_mem and write_mem of an address
\* below 0x2000 access that offset of RAM bank bank_high in RAM mode and of
\* bank 0 in ROM mode, modulo the RAM bank count (of a cartridge that has RAM)
C5_RamBank ==
    [][cart.kind = "MBC1" =>
        /\ IsBankHighWrite(last') => cart'.ram_bank = last'.data % 4
        /\ ~IsBankHighWrite(last') => cart'.ram_bank = cart.ram_bank
        /\ (cart.ram_enabled /\ RamBanks(cart) >= 1 /\ last'.address < 8192) =>
            LET bank == (IF cart.storage_mode = "RAM" THEN cart.ram_bank ELSE 0)
                            % RamBanks(cart)
                index == (bank * RAM_BANK_SIZE) + last'.address
            IN  /\ last'.name = "read_mem" =>
                    /\ last'.result = VecGet(cart.rom.ram, index)
                    /\ cart'.rom.ram = cart.rom.ram
                /\ last'.name = "write_mem" =>
                    /\ last'.result = Ok(VecGet(cart.rom.ram, index).val)
                    /\ cart'.rom.ram = VecSet(cart.rom.ram, index, last'.data)]_vars

\* C5: a cartridge of 2 RAM banks in RAM mode with bank_high 3 reads back from
\* bank 3 % 2 = 1 the 0x5A written there, bank 0 holding 0 at that offset
C5_Witness ==
    /\ cart.kind = "MBC1" /\ RamBanks(cart) = 2
    /\ cart.ram_enabled /\ cart.storage_mode = "RAM" /\ cart.ram_bank = 3
    /\ last.name = "read_mem" /\ last.address = 8191
    /\ last.result = Some(90)
    /\ VecGet(cart.rom.ram, RAM_BANK_SIZE + 8191) = Some(90)
    /\ VecGet(cart.rom.ram, 8191) = Some(0)

-----------------------------------------------------------------------------
(* Properties of MBC2 cartridges, checked under SpecMBC2 *)

\* every entry of the built-in RAM has a zero high nibble
NibblesOnly(c) == \A j \in DOMAIN c.ram.nz : c.ram.nz[j] < 16

\* C6: with RAM enabled, write_mem(a, d) stores d & 0x0F in entry a & 0x01FF,
\* read_mem(b) returns it for every b with b & 0x01FF = a & 0x01FF, a read
\* returns the entry its address selects, and every entry has a zero high
\* nibble in every state write_mem and load_save lead to
C6_HalfByteRam ==
    [][cart.kind = "MBC2" =>
        /\ NibblesOnly(cart) /\ NibblesOnly(cart')
        /\ (cart.ram_enabled /\ last'.name = "write_mem") =>
            LET entry == last'.address % MBC2_MEM_SIZE
                stored == last'.data % 16
            IN  /\ cart'.ram = VecSet(cart.ram, entry, stored)
                /\ \A b \in MemAddrs("MBC2") :
                       b % MBC2_MEM_SIZE = entry
                       => MBC2_read_mem(cart', b).res = Some(stored)
        /\ (cart.ram_enabled /\ last'.name = "read_mem") =>
            last'.result = VecGet(cart.ram, last'.address % MBC2_MEM_SIZE)]_vars

\* C6: the 7 of a 0x77 written to entry 0x042, read back at 0x0442
C6_Witness ==
    /\ cart.kind = "MBC2" /\ cart.ram_enabled
    /\ last.name = "read_mem" /\ last.address = 1090
    /\ last.result = Some(7)
    /\ VecGet(cart.ram, 66) = Some(7)

\* the step is a write_rom below 0x4000 of a cartridge that has a bank 1
IsRegisterWrite(c, l) ==
    c.kind = "MBC2" /\ RomBanks(c) >= 2 /\ l.name = "write_rom" /\ l.address < 16384

\* a write_rom below 0x4000 with bit 8 of the address clear sets ram_enabled to
\* (data = 0x0A) and keeps the ROM bank; with bit 8 set it sets the ROM bank to
\* selected(data) and keeps ram_enabled
RegisterWriteStep(selected(_)) ==
    IsRegisterWrite(cart, last') =>
        IF (last'.address \div 256) % 2 = 0
        THEN /\ cart'.ram_enabled <=> (last'.data = 10)
             /\ cart'.rom.rom_bank = cart.rom.rom_bank
        ELSE /\ cart'.rom.rom_bank = selected(last'.data)
             /\ cart'.ram_enabled <=> cart.ram_enabled

\* data & 0x0F, 1 in place of 0
LowNibbleBank(data) == IF data % 16 = 0 THEN 1 ELSE data % 16

\* C7: a write_rom below 0x4000 to an MBC2 cartridge with bit 8 of the
\* address clear sets ram_enabled to (data = 0x0A) and keeps the ROM bank;
\* with bit 8 set it sets the ROM bank to data & 0x0F, 1 in place of 0, and
\* keeps ram_enabled (on cartridges of two ROM banks or more, where bank 1
\* exists)
C7_RegisterWrite == [][RegisterWriteStep(LowNibbleBank)]_vars

\* every read of the high window of cartridge c returns the byte of bank v
ReadsBank(c, v) ==
    \A a \in HighWindowAddrs : MBC2_read_rom(c, a).res = RomByteAt(c, v, a - 16384)

\* the step is a write to the ROM bank register: below 0x4000, bit 8 set
IsMBC2BankWrite(l) ==
    l.name = "write_rom" /\ l.address < 16384 /\ (l.address \div 256) % 2 = 1

\* C8: on an MBC2 cartridge of 32 ROM banks a write of v in 1..=31 to the ROM
\* bank register makes the reads of the high window return bytes of bank v,
\* no other step changes what they return, a read made while they return
\* bytes of bank v returns one, and a read of the low window returns the byte
\* of bank 0
C8_AllBanksSelectable ==
    [][(cart.kind = "MBC2" /\ RomBanks(cart) = 32) =>
        /\ (IsMBC2BankWrite(last') /\ last'.data \in 1 .. 31)
           => ReadsBank(cart', last'.data)
        /\ (~IsMBC2BankWrite(last') /\ cart' # cart)
           => \A a \in HighWindowAddrs :
                MBC2_read_rom(cart', a).res = MBC2_read_rom(cart, a).res
        /\ (last'.name = "read_rom" /\ last'.address \in HighWindowAddrs)
           => \A v \in 1 .. 31 :
                ReadsBank(cart, v)
                => last'.result = RomByteAt(cart, v, last'.address - 16384)
        /\ (last'.name = "read_rom" /\ last'.address < 16384)
           => last'.result = RomByteAt(cart, 0, last'.address)]_vars

\* C8: the last byte of bank 26 read at 0x7FFF
C8_Witness ==
    /\ cart.kind = "MBC2" /\ RomBanks(cart) = 32
    /\ ReadsBank(cart, 26)
    /\ last.name = "read_rom" /\ last.address = 32767
    /\ last.result = Some(RomMark((26 * ROM_BANK_SIZE) + 16383))

\* C9: while the RAM of an MBC2 cartridge is disabled read_mem returns
\* Some(0xFF) and write_mem returns Ok(0xFF) and leaves the RAM as it was; a
\* write_rom to 0x4000..=0x7FFF returns Ok and changes nothing; a write_rom
\* at or above 0x8000 returns an error and changes nothing
C9_DisabledRam ==
    [][cart.kind = "MBC2" =>
        /\ (~cart.ram_enabled /\ last'.name = "read_mem")
           => (last'.result = Some(255) /\ cart' = cart)
        /\ (~cart.ram_enabled /\ last'.name = "write_mem")
           => (last'.result = Ok(255) /\ cart'.ram = cart.ram)
        /\ (last'.name = "write_rom" /\ last'.address >= 16384
                /\ last'.address <= 32767)
           => (last'.result = OkUnit /\ cart' = cart)
        /\ (last'.name = "write_rom" /\ last'.address >= 32768)
           => (last'.result = Err /\ cart' = cart)]_vars

\* C9: a write of 0x77 answered with Ok(0xFF), the entry keeping the 8 written
\* before the RAM was disabled
C9_Witness ==
    /\ cart.kind = "MBC2" /\ ~cart.ram_enabled
    /\ last.name = "write_mem" /\ last.address = 66 /\ last.data = 119
    /\ last.result = Ok(255)
    /\ VecGet(cart.ram, 66) = Some(8)

-----------------------------------------------------------------------------
(* Properties of MBC3 cartridges, checked under SpecMBC3 *)

MBC3_enabling(data) == data = 160

\* C10: on an MBC3 cartridge ram_enabled is false after construction and
\* otherwise what the most recent write to 0x0000..=0x1FFF made it, true
\* exactly for data = 0xA0; while it is false read_mem returns Some(0xFF)
\* whatever bank is selected and write_mem changes neither the cartridge RAM
\* nor the clock
C10_RamGate ==
    [][cart.kind = "MBC3" =>
        /\ last.name = "new" => ~cart.ram_enabled
        /\ GateFollowsWrites(MBC3_enabling)
        /\ (~cart.ram_enabled /\ now' = now /\ last'.name = "read_mem")
           => last'.result = Some(255)
        /\ (~cart.ram_enabled /\ now' = now /\ last'.name = "write_mem")
           => (cart'.rom.ram = cart.rom.ram /\ cart'.rtc = cart.rtc)]_vars

\* C10: a cartridge with a clock whose seconds register is selected and holds
\* 59, disabled by the write of 0x0A
C10_Witness ==
    /\ cart.kind = "MBC3" /\ cart.rtc.tag = "Some"
    /\ cart.ram_bank = 8 /\ cart.rtc.val.seconds = 59
    /\ IsRamEnableWrite(last) /\ last.data = 10
    /\ ~cart.ram_enabled

\* every read of the high window of MBC3 cartridge c returns the byte of bank v
ReadsBankMBC3(c, v) ==
    \A a \in HighWindowAddrs : MBC3_read_rom(c, a).res = RomByteAt(c, v, a - 16384)

\* C11: on an MBC3 cartridge a write of d to 0x2000..=0x3FFF selects ROM bank
\* (d & 0x7F) modulo the bank count, 0 included, and no other step changes the
\* selected bank or the ROM; a read of the high window returns the byte at
\* offset (address & 0x3FFF) of the selected bank and a read below 0x4000 the
\* byte of bank 0
C11_RomBanking ==
    [][(cart.kind = "MBC3" /\ RomBanks(cart) >= 1) =>
        /\ IsRomBankWrite(last')
           => cart'.rom.rom_bank = (last'.data % 128) % RomBanks(cart)
        /\ ~IsRomBankWrite(last') => cart'.rom.rom_bank = cart.rom.rom_bank
        /\ cart'.rom.rom = cart.rom.rom
        /\ (last'.name = "read_rom" /\ last'.address \in HighWindowAddrs)
           => last'.result = RomByteAt(cart, cart.rom.rom_bank, last'.address - 16384)
        /\ (last'.name = "read_rom" /\ last'.address < 16384)
           => last'.result = RomByteAt(cart, 0, last'.address)]_vars

\* C11: the first byte of bank 0 of a 64-bank cartridge read at 0x4000, bank 0
\* having been selected
C11_Witness ==
    /\ cart.kind = "MBC3" /\ RomBanks(cart) = 64
    /\ ReadsBankMBC3(cart, 0)
    /\ last.name = "read_rom" /\ last.address = 16384
    /\ last.result = Some(RomMark(0))

\* the step is a write to the latch register 0x6000 ..= 0x7FFF
IsLatchWrite(l) == l.name = "write_rom" /\ l.address >= 24576 /\ l.address <= 32767

\* C12: on an MBC3 cartridge latching is false after construction, a write to
\* 0x6000..=0x7FFF leaves it true exactly when its data is 0, a write to
\* another region leaves it as it was, and a write_rom latches the clock
\* exactly when it writes 1 to 0x6000..=0x7FFF while latching is true
C12_LatchProtocol ==
    [][cart.kind = "MBC3" =>
        /\ last.name = "new" => ~cart.latching
        /\ IsLatchWrite(last') => (cart'.latching <=> last'.data = 0)
        /\ ~IsLatchWrite(last') => (cart'.latching <=> cart.latching)
        /\ (last'.name = "write_rom" /\ cart.rtc.tag = "Some") =>
            IF IsLatchWrite(last') /\ last'.data = 1 /\ cart.latching
            THEN cart'.rtc = Some(RealTimeClock_latch(cart.rtc.val, now))
            ELSE cart'.rtc = cart.rtc]_vars

\* the step is a write to the RAM bank register 0x4000 ..= 0x5FFF
IsRamBankWrite(l) == l.name = "write_rom" /\ l.address >= 16384 /\ l.address <= 24575

\* the clock register of cartridge c that the register value v in 0x08..=0x0C
\* names, as stored
ClockRegister(c, v) ==
    CASE v = 8 -> c.rtc.val.seconds
      [] v = 9 -> c.rtc.val.minutes
      [] v = 10 -> c.rtc.val.hours
      [] v = 11 -> c.rtc.val.days_lower
      [] v = 12 -> c.rtc.val.days_upper

\* with its RAM enabled and v in its ram_bank register, cartridge c at time t
\* answers read_mem and write_mem as the claim says: from RAM bank v for v in
\* 0..=3 (a bank the cartridge has), from the clock register for v in
\* 0x08..=0x0C (on a cartridge with a clock), the write returning what the read
\* returns and storing the data, and with None and an error otherwise
RoutesBy(c, v, t) ==
    \A a \in MemAddrs("MBC3") : \A d \in WriteMemData("MBC3") :
        LET rd == MBC3_read_mem(c, a, t, overflow_checks)
            wr == MBC3_write_mem(c, a, d, t)
        IN  IF v <= 3
            THEN (v < RamBanks(c) /\ a < RAM_BANK_SIZE) =>
                    LET index == (v * RAM_BANK_SIZE) + a
                    IN  /\ rd.res = VecGet(c.rom.ram, index)
                        /\ wr.res = Ok(VecGet(c.rom.ram, index).val)
                        /\ wr.st.rom.ram = VecSet(c.rom.ram, index, d)
                        /\ wr.st.rtc = c.rtc
            ELSE IF v >= 8 /\ v <= 12
            THEN c.rtc.tag = "Some" =>
                    /\ rd.res.tag = "Some"
                    /\ wr.res = Ok(rd.res.val)
                    /\ ClockRegister(wr.st, v) = d
                    /\ wr.st.rom.ram = c.rom.ram
            ELSE /\ rd.res = None
                 /\ wr.res = Err
                 /\ wr.st = c

\* C13: the ram_bank register of an MBC3 cartridge holds data & 0x0F of the
\* last write to 0x4000..=0x5FFF, and with RAM enabled read_mem and write_mem
\* are routed by it from that write on
C13_RamAndClockRouting ==
    [][cart.kind = "MBC3" =>
        /\ IsRamBankWrite(last') => cart'.ram_bank = last'.data % 16
        /\ ~IsRamBankWrite(last') => cart'.ram_bank = cart.ram_bank
        /\ (IsRamBankWrite(last') /\ cart'.ram_enabled)
           => RoutesBy(cart', last'.data % 16, now')]_vars

-----------------------------------------------------------------------------
(* A RealTimeClock on its own: its getters and setters called at chosen    *)
(* readings of the wall clock.  cart holds the clock and the number of      *)
(* register writes made, the address of a call is the number of the         *)
(* register, 0x08 seconds to 0x0C day-upper.                                *)

\* the getter of register reg; Panic for the u8 sum that overflows in a build
\* with overflow checks
RealTimeClock_get(r, reg, t, checks) ==
    LET v == CASE reg = 8 -> RealTimeClock_get_seconds(r, t)
               [] reg = 9 -> RealTimeClock_get_minutes(r, t)
               [] reg = 10 -> RealTimeClock_get_hours(r, t)
               [] reg = 11 -> RealTimeClock_get_days_lower(r, t, checks)
               [] reg = 12 -> RealTimeClock_get_days_upper(r, t)
    IN  IF v < 0 THEN Panic ELSE Some(v)

\* the setter of register reg
RealTimeClock_set(r, reg, value, t) ==
    CASE reg = 8 -> RealTimeClock_set_seconds(r, value, t)
      [] reg = 9 -> RealTimeClock_set_minutes(r, value, t)
      [] reg = 10 -> RealTimeClock_set_hours(r, value, t)
      [] reg = 11 -> RealTimeClock_set_days_lower(r, value, t)
      [] reg = 12 -> RealTimeClock_set_days_upper(r, value, t)

ClockRegisters == 8 .. 12

\* the values written: seconds 0xFF, minutes 42, hours 2, day-lower 0xFF,
\* day-upper 0x05 0x40 0x80
SetData(reg) ==
    CASE reg = 8 -> {255}
      [] reg = 9 -> {42}
      [] reg = 10 -> {2}
      [] reg = 11 -> {255}
      [] reg = 12 -> {5, 64, 128}

\* the readings of the wall clock at which calls are made, in seconds since
\* the clock was constructed: 1:01:01, 511 days 3:06:30, 512 days
ClockTimes == {3661, (511 * 86400) + 11190, 512 * 86400}

\* the registers are written at most MaxWrites times
MaxWrites == 2

GetRegister ==
    \E reg \in ClockRegisters :
        /\ cart.kind = "RTC"
        /\ last' = Call("get", reg, 0,
                        RealTimeClock_get(cart.rtc, reg, now, overflow_checks))
        /\ UNCHANGED <<cart, now, overflow_checks>>

SetRegister ==
    \E reg \in ClockRegisters : \E value \in SetData(reg) :
        LET w == RealTimeClock_set(cart.rtc, reg, value, now)
        IN  /\ cart.kind = "RTC"
            /\ cart.writes < MaxWrites
            /\ cart' = [cart EXCEPT !.rtc = w.st, !.writes = @ + 1]
            /\ last' = Call("set", reg, value, Ok(w.res))
            /\ UNCHANGED <<now, overflow_checks>>

Elapse ==
    \E t \in ClockTimes :
        /\ t > now
        /\ now' = t
        /\ UNCHANGED <<cart, last, overflow_checks>>

\* the clocks constructed: RealTimeClock::new(None, ..) and
\* RealTimeClock::new(Some(1), Some(2), Some(3), Some(4), Some(5))
ClocksBuilt == {RealTimeClock_new(0, 0, 0, 0, 0, 0), RealTimeClock_new(1, 2, 3, 4, 5, 0)}

InitRTC ==
    /\ now = 0
    /\ \E r \in ClocksBuilt : cart = [kind |-> "RTC", rtc |-> r, writes |-> 0]
    /\ last = Call("new", 0, 0, OkUnit)
    /\ overflow_checks \in BOOLEAN

NextRTC == GetRegister \/ SetRegister \/ Elapse

SpecRTC == InitRTC /\ [][NextRTC]_vars

-----------------------------------------------------------------------------
(* Properties of the clock                                                  *)

\* what a clock reads through its five getters at wall-clock reading t
Reads(r, t, checks) ==
    [reg \in ClockRegisters |-> RealTimeClock_get(r, reg, t, checks)]

\* the registers that show D seconds since a fresh start
Shows(D) ==
    [seconds |-> D % 60, minutes |-> (D \div 60) % 60, hours |-> (D \div 3600) % 24,
     days_lower |-> (D \div 86400) % 256, days_bit |-> ((D \div 86400) \div 256) % 2]

\* C14: a clock built with every register zero and not halted, read D seconds
\* later through its getters or after update_time, shows seconds D mod 60,
\* minutes (D div 60) mod 60, hours (D div 3600) mod 24, day-lower the low
\* byte of D div 86400 and day-upper bit 0 the ninth bit of D div 86400;
\* seconds and minutes are below 60 and hours below 24.
C14_FreshClockShowsElapsed ==
    (cart.kind = "RTC" /\ cart.rtc = RealTimeClock_new(0, 0, 0, 0, 0, 0)) =>
        LET D == now
            g == Reads(cart.rtc, now, overflow_checks)
            u == RealTimeClock_update_time(cart.rtc, now)
        IN  /\ g[8] = Some(Shows(D).seconds) /\ g[9] = Some(Shows(D).minutes)
            /\ g[10] = Some(Shows(D).hours) /\ g[11] = Some(Shows(D).days_lower)
            /\ g[12].tag = "Some" /\ g[12].val % 2 = Shows(D).days_bit
            /\ u.seconds = Shows(D).seconds /\ u.minutes = Shows(D).minutes
            /\ u.hours = Shows(D).hours /\ u.days_lower = Shows(D).days_lower
            /\ u.days_upper % 2 = Shows(D).days_bit
            /\ u.seconds < 60 /\ u.minutes < 60 /\ u.hours < 24

\* 511 days 3:06:30 after a fresh start day-upper is read as 0x01
C14_Witness ==
    /\ cart.kind = "RTC" /\ cart.rtc = RealTimeClock_new(0, 0, 0, 0, 0, 0)
    /\ now = (511 * 86400) + 11190
    /\ last.name = "get" /\ last.address = 12 /\ last.result = Some(1)

\* a step that writes a clock register
IsClockWrite(reg) ==
    /\ cart.kind = "RTC" /\ cart'.writes = cart.writes + 1
    /\ last'.name = "set" /\ last'.address = reg

InRange(r) == r.seconds < 60 /\ r.minutes < 60 /\ r.hours < 24

\* the nine-bit day count held by the registers
DayCount(r) == ((r.days_upper % 2) * 256) + r.days_lower

\* the epoch offset the registers stand for, in seconds
EpochOffset(r) ==
    (DayCount(r) * 86400) + (r.hours * 3600) + (r.minutes * 60) + r.seconds

\* the registers other than reg are those that show D
OthersShow(r, reg, D) ==
    /\ reg # 8 => r.seconds = Shows(D).seconds
    /\ reg # 9 => r.minutes = Shows(D).minutes
    /\ reg # 10 => r.hours = Shows(D).hours
    /\ reg # 11 => r.days_lower = Shows(D).days_lower
    /\ reg # 12 => r.days_upper % 2 = Shows(D).days_bit

\* C15: the update made before a register write takes the registers to stand
\* for days*86400 + hours*3600 + minutes*60 + seconds: on a running clock
\* whose seconds and minutes are below 60 and hours below 24, after delta
\* seconds of wall time the registers not written show that offset plus delta,
\* and are unchanged when delta is 0.
C15_Reconciliation ==
    [][\A reg \in ClockRegisters :
        (IsClockWrite(reg) /\ InRange(cart.rtc) /\ ~cart.rtc.halted) =>
            OthersShow(cart'.rtc, reg,
                       EpochOffset(cart.rtc) + (now - cart.rtc.last_modified))]_vars

\* bit 7 of day-upper as the clock reads it at wall-clock reading t
CarryShown(r, t) == RealTimeClock_get_days_upper(r, t) >= 128

\* C16: once day-upper reads with bit 7 set, it reads so after every step
\* (time passing, reads, register writes and the updates they make) other than
\* a write to day-upper of a value with bit 7 clear, and it is stored set
\* by every register write made meanwhile.
C16_StickyCarry ==
    [][(cart.kind = "RTC" /\ CarryShown(cart.rtc, now)
        /\ ~(IsClockWrite(12) /\ last'.data < 128)) =>
            /\ CarryShown(cart'.rtc, now')
            /\ (\E reg \in ClockRegisters : IsClockWrite(reg)) =>
                   cart'.rtc.days_upper >= 128]_vars

\* the carry was stored by a write made 511 days 3:06:30 after construction,
\* the clock has run on to day 512 and the day count it holds is below 512
C16_Witness ==
    /\ cart.kind = "RTC" /\ ~cart.rtc.halted
    /\ cart.rtc.last_modified = (511 * 86400) + 11190 /\ now = 512 * 86400
    /\ cart.rtc.days_upper >= 128 /\ CarryShown(cart.rtc, now)
    /\ last.name = "set" /\ last.address # 12

\* the time the clock shows at wall-clock reading t, in seconds: what its
\* registers stand for and, unless halted, the time since they were brought
\* up to date
TimeShown(r, t) ==
    EpochOffset(r) + (IF r.halted THEN 0 ELSE t - r.last_modified)

\* seconds, minutes, hours and day-lower of D
ClockFace(D) ==
    <<Shows(D).seconds, Shows(D).minutes, Shows(D).hours, Shows(D).days_lower>>

\* C17: the time shown advances by the wall time that passes while the clock
\* runs and by none that passes while it is halted: a write to day-upper,
\* whether it halts, resumes or does neither, leaves the seconds, minutes,
\* hours and day-lower shown as they were; a halted clock reads the same
\* however much time passes, and a write to one of its registers leaves the
\* others as they were.
C17_HaltResume ==
    [][cart.kind = "RTC" =>
        /\ IsClockWrite(12) =>
               ClockFace(TimeShown(cart'.rtc, now')) = ClockFace(TimeShown(cart.rtc, now))
        /\ (cart.rtc.halted /\ now' # now) =>
               Reads(cart.rtc, now', overflow_checks) = Reads(cart.rtc, now, overflow_checks)
        /\ \A reg \in ClockRegisters :
               (cart.rtc.halted /\ IsClockWrite(reg)) =>
                   \A other \in ClockRegisters \ {reg, 12} :
                       RealTimeClock_get(cart'.rtc, other, now', overflow_checks)
                           = RealTimeClock_get(cart.rtc, other, now, overflow_checks)]_vars

\* C18: a write leaves in seconds and in minutes the low six bits of the
\* value written, in hours the low five bits and in day-upper only bits 0xC1,
\* and day-upper never reads with one of its five middle bits (0x3E) set, so a
\* clock built with day-upper 5 reads 1.
C18_RegisterWidths ==
    [][cart.kind = "RTC" =>
        /\ IsClockWrite(8) => cart'.rtc.seconds = last'.data % 64
        /\ IsClockWrite(9) => cart'.rtc.minutes = last'.data % 64
        /\ IsClockWrite(10) => cart'.rtc.hours = last'.data % 32
        /\ IsClockWrite(12) => BitAnd(cart'.rtc.days_upper, 62) = 0
        /\ (last'.name = "get" /\ last'.address = 12 /\ last'.result.tag = "Some") =>
               BitAnd(last'.result.val, 62) = 0]_vars

-----------------------------------------------------------------------------
(* utils.rs *)

\* Merge<u8, u16> for u8: (b as u16) + ((self as u16) << 8)
Merge(self, b) == b + ((self * Pow2(8)) % 65536)

\* fault: the halves come out low byte first
Split_low_first(self) == <<self % 256, (self \div Pow2(8)) % 256>>

\* Split<u8> for u16: (self >> 8) as u8, self as u8
Split(self) == <<(self \div Pow2(8)) % 256, self % 256>>

-----------------------------------------------------------------------------
(* memory/mod.rs: DmgMemoryController *)

DMG_ROM_END == 32767
DMG_VRAM_START == 32768
DMG_VRAM_END == 40959
DMG_EXT_START == 40960
DMG_EXT_END == 49151
DMG_RAM_START == 49152
DMG_RAM_END == 57343
DMG_RES_START == 65024
DMG_RES_END == 65535
DMG_RAM_SIZE == 8192
DMG_VRAM_SIZE == 8192
DMG_RES_SIZE == (DMG_RES_END - DMG_RES_START) + 1

\* ram is built as [0; DMG_VRAM_SIZE]
DmgMemoryController_new(cartridge) ==
    [kind |-> "DMG",
     cartridge |-> cartridge,
     ram |-> VecZero(DMG_VRAM_SIZE),
     vram |-> VecZero(DMG_VRAM_SIZE),
     system |-> VecZero(DMG_RES_SIZE)]

\* a read through the cartridge: the byte it answers with, and the controller
\* holding the cartridge as the read left it (an MBC1 sets the banks of its
\* BankedRom through the RefCell while reading)
DmgMemoryController_read(m, r) == [st |-> [m EXCEPT !.cartridge = r.st], res |-> r.res]

\* load_byte with the external-RAM address handed to the cartridge as it is
DmgMemoryController_load_byte_unshifted(m, address, t, checks) ==
    IF address <= DMG_ROM_END
    THEN DmgMemoryController_read(m, CartridgeMapper_read_rom(m.cartridge, address))
    ELSE IF address >= DMG_EXT_START /\ address <= DMG_EXT_END
    THEN DmgMemoryController_read(
             m, CartridgeMapper_read_mem(m.cartridge, address, t, checks))
    ELSE IF address >= DMG_VRAM_START /\ address <= DMG_VRAM_END
    THEN [st |-> m, res |-> VecGet(m.vram, address - DMG_VRAM_START)]
    ELSE IF address >= DMG_RAM_START /\ address <= DMG_RAM_END
    THEN [st |-> m, res |-> VecGet(m.ram, address - DMG_RAM_START)]
    ELSE IF address >= DMG_RES_START /\ address <= DMG_RES_END
    THEN [st |-> m, res |-> VecGet(m.system, address - DMG_RES_START)]
    ELSE [st |-> m, res |-> None]

\* load_byte: the byte read, and the controller after the read
DmgMemoryController_load_byte(m, address, t, checks) ==
    IF address <= DMG_ROM_END
    THEN DmgMemoryController_read(m, CartridgeMapper_read_rom(m.cartridge, address))
    ELSE IF address >= DMG_EXT_START /\ address <= DMG_EXT_END
    THEN DmgMemoryController_read(
             m, CartridgeMapper_read_mem(m.cartridge, address - DMG_EXT_START, t, checks))
    ELSE IF address >= DMG_VRAM_START /\ address <= DMG_VRAM_END
    THEN [st |-> m, res |-> VecGet(m.vram, address - DMG_VRAM_START)]
    ELSE IF address >= DMG_RAM_START /\ address <= DMG_RAM_END
    THEN [st |-> m, res |-> VecGet(m.ram, address - DMG_RAM_START)]
    ELSE IF address >= DMG_RES_START /\ address <= DMG_RES_END
    THEN [st |-> m, res |-> VecGet(m.system, address - DMG_RES_START)]
    ELSE [st |-> m, res |-> None]

\* Some(left.merge(right)), after the ? on the second byte; left is the byte
\* read first, right the second read with the controller it left
DmgMemoryController_load_half_word_merge(left, right) ==
    [st |-> right.st,
     res |-> IF right.res.tag # "Some" THEN right.res ELSE Some(Merge(left.val, right.res.val))]

\* the second load, after the ? on the first byte.  address + 1 on a u16:
\* 0xFFFF + 1 panics in a build with overflow checks and wraps to 0 in one
\* without
\* m is the controller as the first read left it
DmgMemoryController_load_half_word_right(m, address, t, checks, left) ==
    IF left.tag # "Some"
    THEN [st |-> m, res |-> left]
    ELSE IF address + 1 > 65535 /\ checks
    THEN [st |-> m, res |-> Panic]
    ELSE DmgMemoryController_load_half_word_merge(
             left, DmgMemoryController_load_byte(m, (address + 1) % 65536, t, checks))

\* the first load, then the rest on the controller it left
DmgMemoryController_load_half_word_left(address, t, checks, first) ==
    DmgMemoryController_load_half_word_right(first.st, address, t, checks, first.res)

DmgMemoryController_load_half_word(m, address, t, checks) ==
    DmgMemoryController_load_half_word_left(
        address, t, checks, DmgMemoryController_load_byte(m, address, t, checks))

\* the ROM arm: self.cartridge.write_rom(address, data).map(|_| data)
DmgMemoryController_store_rom(m, data, w) ==
    [st |-> [m EXCEPT !.cartridge = w.st],
     res |-> IF w.res.tag = "Ok" THEN Ok(data) ELSE w.res]

\* the external-RAM arm: self.cartridge.write_mem(address - DMG_EXT_START, data)
DmgMemoryController_store_ext(m, w) ==
    [st |-> [m EXCEPT !.cartridge = w.st], res |-> w.res]

\* the work-RAM and system arms take the previous byte from vram
DmgMemoryController_store_byte(m, address, data, t) ==
    IF address <= DMG_ROM_END
    THEN DmgMemoryController_store_rom(
             m, data, CartridgeMapper_write_rom(m.cartridge, address, data, t))
    ELSE IF address >= DMG_VRAM_START /\ address <= DMG_VRAM_END
    THEN [st |-> [m EXCEPT !.vram = VecSet(m.vram, address - DMG_VRAM_START, data)],
          res |-> Ok(VecGet(m.vram, address - DMG_VRAM_START).val)]
    ELSE IF address >= DMG_EXT_START /\ address <= DMG_EXT_END
    THEN DmgMemoryController_store_ext(
             m, CartridgeMapper_write_mem(m.cartridge, address - DMG_EXT_START, data, t))
    ELSE IF address >= DMG_RAM_START /\ address <= DMG_RAM_END
    THEN [st |-> [m EXCEPT !.ram = VecSet(m.ram, address - DMG_RAM_START, data)],
          res |-> Ok(VecGet(m.vram, address - DMG_RAM_START).val)]
    ELSE IF address >= DMG_RES_START /\ address <= DMG_RES_END
    THEN [st |-> [m EXCEPT !.system = VecSet(m.system, address - DMG_RES_START, data)],
          res |-> Ok(VecGet(m.vram, address - DMG_RES_START).val)]
    ELSE [st |-> m, res |-> Err]

\* self.store_byte(address, prev_left).unwrap(); return Err(MemoryWriteError):
\* .unwrap() panics if the store fails
DmgMemoryController_store_half_word_undo(undo) ==
    [st |-> undo.st, res |-> IF undo.res.tag = "Ok" THEN Err ELSE Panic]

\* after the second store: it failing, the first is undone with the byte the
\* first store returned
DmgMemoryController_store_half_word_right(address, t, first, right) ==
    IF right.res.tag = "Err"
    THEN DmgMemoryController_store_half_word_undo(
             DmgMemoryController_store_byte(right.st, address, first.res.val, t))
    ELSE [st |-> right.st, res |-> IF right.res.tag = "Ok" THEN OkUnit ELSE right.res]

\* after the first store and its ?: the second store, at address + 1
DmgMemoryController_store_half_word_left(address, data, t, checks, first) ==
    IF first.res.tag # "Ok"
    THEN first
    ELSE IF address + 1 > 65535 /\ checks
    THEN [st |-> first.st, res |-> Panic]
    ELSE DmgMemoryController_store_half_word_right(
             address, t, first,
             DmgMemoryController_store_byte(
                 first.st, (address + 1) % 65536, Split(data)[2], t))

DmgMemoryController_store_half_word(m, address, data, t, checks) ==
    DmgMemoryController_store_half_word_left(
        address, data, t, checks,
        DmgMemoryController_store_byte(m, address, Split(data)[1], t))

-----------------------------------------------------------------------------
(* A DmgMemoryController over an MBC1 cartridge of 4 ROM banks and 1 RAM     *)
(* bank; cart holds the controller.                                         *)

\* byte addresses: 0x0000 0x7FFF (ROM), 0x8000 (video RAM), 0xA000 (external
\* RAM), 0xC000 0xC001 0xDFFF (work RAM), 0xE000 (unmapped), 0xFFFF (system)
BusAddrs ==
    {0, 32767, 32768, 40960, 49152, 49153, 57343, 57344, 65535}

\* half-word addresses: 0x7FFF (ROM then video RAM), 0xC000, 0xDFFF (work RAM
\* then unmapped), 0xFDFF (unmapped), 0xFFFF (address + 1 overflows)
HalfWordAddrs == {32767, 49152, 57343, 65023, 65535}

\* bytes stored: 0x0A to the ROM region (at 0x0000 it enables the cartridge
\* RAM), 0x04 to 0xC000, 0x28 elsewhere
StoreData(address) ==
    IF address <= DMG_ROM_END THEN {10}
    ELSE IF address = DMG_RAM_START THEN {4}
    ELSE {40}

\* half words stored: 0x0428
HalfWordData == {1064}

\* a read leaves the controller as the cartridge's read left it
LoadByte ==
    \E a \in BusAddrs :
        LET r == DmgMemoryController_load_byte(cart, a, now, overflow_checks)
        IN  /\ cart.kind = "DMG"
            /\ last' = Call("load_byte", a, 0, r.res)
            /\ cart' = r.st
            /\ UNCHANGED <<now, overflow_checks>>

LoadHalfWord ==
    \E a \in HalfWordAddrs :
        LET r == DmgMemoryController_load_half_word(cart, a, now, overflow_checks)
        IN  /\ cart.kind = "DMG"
            /\ last' = Call("load_half_word", a, 0, r.res)
            /\ cart' = r.st
            /\ UNCHANGED <<now, overflow_checks>>

StoreByte ==
    \E a \in BusAddrs : \E d \in StoreData(a) :
        LET w == DmgMemoryController_store_byte(cart, a, d, now)
        IN  /\ cart.kind = "DMG"
            /\ cart' = w.st
            /\ last' = Call("store_byte", a, d, w.res)
            /\ UNCHANGED <<now, overflow_checks>>

StoreHalfWord ==
    \E a \in HalfWordAddrs : \E d \in HalfWordData :
        LET w == DmgMemoryController_store_half_word(cart, a, d, now, overflow_checks)
        IN  /\ cart.kind = "DMG"
            /\ cart' = w.st
            /\ last' = Call("store_half_word", a, d, w.res)
            /\ UNCHANGED <<now, overflow_checks>>

\* <<ROM banks, RAM banks>> of the MBC1 cartridge on the bus
DMGConfigs == {<<4, 1>>}

InitDMG ==
    /\ \E cfg \in DMGConfigs :
           cart = DmgMemoryController_new(MBC1_new(RomImage(cfg[1]), cfg[1], cfg[2], TRUE).val)
    /\ last = Call("new", 0, 0, OkUnit)
    /\ now = 0
    /\ overflow_checks \in BOOLEAN

NextDMG == LoadByte \/ LoadHalfWord \/ StoreByte \/ StoreHalfWord

SpecDMG == InitDMG /\ [][NextDMG]_vars

-----------------------------------------------------------------------------
(* Properties of the memory controller, checked under SpecDMG *)

InRom(a) == a <= DMG_ROM_END
InExt(a) == a >= DMG_EXT_START /\ a <= DMG_EXT_END
InUnmapped(a) == a > DMG_RAM_END /\ a < DMG_RES_START
BusOwned(a) == ~InRom(a) /\ ~InExt(a) /\ ~InUnmapped(a)

\* the addresses looked at: those the calls use and the ones after them
Probes == BusAddrs \cup {a + 1 : a \in HalfWordAddrs \ {65535}}

LoadsAt(m, a) == DmgMemoryController_load_byte(m, a, now, overflow_checks).res

\* C19: load_byte and store_byte hand 0x0000..=0x7FFF to the cartridge's
\* read_rom / write_rom with the address as it is and 0xA000..=0xBFFF to its
\* read_mem / write_mem with 0xA000 taken off; a store_byte to an address of
\* the video RAM, the work RAM or the system array makes load_byte of it
\* return the byte stored and changes what no other address loads;
\* 0xE000..=0xFDFF loads None and refuses the store.  A load changes nothing
\* but what the cartridge's read changes in the cartridge.
C19_BusRouting ==
    [][cart.kind = "DMG" =>
        LET a == last'.address
            d == last'.data
            c == cart.cartridge
        IN  /\ last'.name = "load_byte" =>
                /\ [cart' EXCEPT !.cartridge = c] = cart
                /\ InRom(a) =>
                       /\ last'.result = CartridgeMapper_read_rom(c, a).res
                       /\ cart'.cartridge = CartridgeMapper_read_rom(c, a).st
                /\ InExt(a) =>
                       /\ last'.result =
                              CartridgeMapper_read_mem(c, a - 40960, now, overflow_checks).res
                       /\ cart'.cartridge =
                              CartridgeMapper_read_mem(c, a - 40960, now, overflow_checks).st
                /\ (~InRom(a) /\ ~InExt(a)) => cart' = cart
                /\ InUnmapped(a) => last'.result = None
            /\ last'.name = "store_byte" =>
                /\ InRom(a) =>
                       /\ cart'.cartridge = CartridgeMapper_write_rom(c, a, d, now).st
                       /\ \A b \in Probes : BusOwned(b) => LoadsAt(cart', b) = LoadsAt(cart, b)
                /\ InExt(a) =>
                       /\ cart'.cartridge = CartridgeMapper_write_mem(c, a - 40960, d, now).st
                       /\ last'.result = CartridgeMapper_write_mem(c, a - 40960, d, now).res
                       /\ \A b \in Probes : BusOwned(b) => LoadsAt(cart', b) = LoadsAt(cart, b)
                /\ BusOwned(a) =>
                       /\ last'.result.tag = "Ok"
                       /\ LoadsAt(cart', a) = Some(d)
                       /\ \A b \in Probes \ {a} : LoadsAt(cart', b) = LoadsAt(cart, b)
                /\ InUnmapped(a) => last'.result = Err /\ cart' = cart]_vars

\* 0x04 stored at 0xC000 is loaded back, 0x28 stored at 0xA000 went to the
\* enabled cartridge RAM at offset 0, and 0xE000 loads nothing
C19_Witness ==
    /\ cart.kind = "DMG"
    /\ last.name = "load_byte" /\ last.address = 49152 /\ last.result = Some(4)
    /\ CartridgeMapper_read_mem(cart.cartridge, 0, now, overflow_checks).res = Some(40)
    /\ LoadsAt(cart, 40960) = Some(40)
    /\ LoadsAt(cart, 57344) = None

\* C20: load_half_word(addr) is load_byte(addr) | (load_byte(addr + 1) << 8),
\* the byte at the lower address being the low byte of the result, and None
\* when either byte does not load (addr below 0xFFFF).
C20_LittleEndianLoad ==
    [][(cart.kind = "DMG" /\ last'.name = "load_half_word" /\ last'.address < 65535) =>
        LET low == LoadsAt(cart, last'.address)
            high == LoadsAt(cart, last'.address + 1)
        IN  last'.result = IF low.tag = "Some" /\ high.tag = "Some"
                           THEN Some(low.val + (high.val * 256))
                           ELSE None]_vars

\* C21: store_half_word(addr, v) leaves the low byte of v at addr and the high
\* byte at addr + 1 (bus-owned addresses, addr below 0xFFFF); when it returns
\* an error the controller, cartridge included, is as it was before the call.
C21_HalfWordStore ==
    [][(cart.kind = "DMG" /\ last'.name = "store_half_word" /\ last'.address < 65535) =>
        /\ (last'.result.tag = "Ok" /\ BusOwned(last'.address)
                                    /\ BusOwned(last'.address + 1)) =>
               /\ LoadsAt(cart', last'.address) = Some(last'.data % 256)
               /\ LoadsAt(cart', last'.address + 1) = Some(last'.data \div 256)
        /\ last'.result.tag = "Err" => cart' = cart]_vars

\* C22: a store_byte that succeeds at an address of the video RAM, the work
\* RAM, the system array or the enabled cartridge RAM returns the byte
\* load_byte gave for that address just before the call.
C22_StoreReturnsPrevious ==
    [][(cart.kind = "DMG" /\ last'.name = "store_byte" /\ last'.result.tag = "Ok"
        /\ (BusOwned(last'.address)
            \/ (InExt(last'.address) /\ cart.cartridge.ram_enabled))
        /\ LoadsAt(cart, last'.address).tag = "Some") =>
            last'.result.val = LoadsAt(cart, last'.address).val]_vars

-----------------------------------------------------------------------------
(* Properties of load_save and save, under SpecSave.                       *)

\* the save file of the load_save call just made
FileLoaded == CHOOSE f \in SaveFilesOf(cart) : Len(f) = last'.address

\* whether the cartridge was built with a battery
HasBattery(c) == IF c.kind \in {"MBC2", "RomOnly"} THEN c.has_battery ELSE c.rom.has_battery

\* a cartridge of the variants that carry RAM: every one but ROM-only without RAM
CarriesRam(c) == c.kind = "RomOnly" => c.ram.tag = "Some"

\* byte i (from 0) of what save returns
SavedByte(c, i) == VecGet(CartridgeMapper_save(c), i)

\* C23 as stated: on every variant with RAM, load_save of a file no longer
\* than the RAM succeeds, and save then returns a buffer as long as the RAM
\* whose leading bytes are the file's, byte for byte.
C23_AsStated ==
    [][(last'.name = "load_save" /\ CarriesRam(cart) /\ last'.address <= Capacity(cart)) =>
          /\ last'.result = OkUnit
          /\ Capacity(cart') = Capacity(cart)
          /\ \A i \in 1 .. Len(FileLoaded) : SavedByte(cart', i - 1) = Some(FileLoaded[i])]_vars

\* C23: on every variant with RAM and a battery, load_save of a file no
\* longer than the RAM succeeds, and save then returns a buffer as long as the
\* RAM (512 for MBC2) whose leading bytes are the file's (on MBC2 the low four
\* bits of each) and whose other bytes are what save returned before.
C23_SaveRoundTrip ==
    [][(last'.name = "load_save" /\ CarriesRam(cart) /\ HasBattery(cart)
        /\ last'.address <= Capacity(cart)) =>
          /\ last'.result = OkUnit
          /\ Capacity(cart') = Capacity(cart)
          /\ cart.kind = "MBC2" => Capacity(cart') = MBC2_MEM_SIZE
          /\ \A i \in 1 .. Len(FileLoaded) :
                SavedByte(cart', i - 1) =
                    Some(IF cart.kind = "MBC2" THEN FileLoaded[i] % 16 ELSE FileLoaded[i])
          /\ \A i \in DOMAIN CartridgeMapper_save(cart).nz \cup DOMAIN CartridgeMapper_save(cart').nz :
                i >= Len(FileLoaded) => SavedByte(cart', i) = SavedByte(cart, i)]_vars

\* a save of an MBC2 after the file 0x12 0xF0 0xFF went in
C23_Witness ==
    /\ cart.kind = "MBC2"
    /\ last.name = "save"
    /\ last.result.val.len = MBC2_MEM_SIZE
    /\ VecGet(last.result.val, 0) = Some(2)
    /\ VecGet(last.result.val, 2) = Some(15)

\* C24 as stated, the battery looked at first: without a battery load_save
\* returns SavesNotSupported; with one, a file longer than what save returns
\* gets SaveFileTooBig; either way the cartridge and its save stay as they were.
C24_AsStated ==
    [][(last'.name = "load_save") =>
          /\ ~HasBattery(cart) => last'.result = SavesNotSupported
          /\ (HasBattery(cart) /\ last'.address > Capacity(cart)) =>
                 last'.result = SaveFileTooBig
          /\ last'.result.tag # "Ok" =>
                 /\ cart' = cart
                 /\ CartridgeMapper_save(cart') = CartridgeMapper_save(cart)]_vars

\* C24: load_save returns SavesNotSupported on a cartridge without a battery
\* and on a ROM-only cartridge without RAM; on every other cartridge a file
\* longer than the RAM gets SaveFileTooBig; in both cases no RAM byte and no
\* register changes and save returns the buffer it returned before.
C24_SaveErrors ==
    [][(last'.name = "load_save") =>
          /\ (~HasBattery(cart) \/ ~CarriesRam(cart)) => last'.result = SavesNotSupported
          /\ (HasBattery(cart) /\ CarriesRam(cart) /\ last'.address > Capacity(cart)) =>
                 last'.result = SaveFileTooBig
          /\ last'.result.tag # "Ok" =>
                 /\ cart' = cart
                 /\ CartridgeMapper_save(cart') = CartridgeMapper_save(cart)]_vars

\* a file a byte longer than the RAM was refused by a cartridge whose RAM
\* holds the last byte of an earlier file
C24_Witness ==
    /\ last.name = "load_save"
    /\ last.result = SaveFileTooBig
    /\ last.address = RAM_BANK_SIZE + 1
    /\ SavedByte(cart, RAM_BANK_SIZE - 1) = Some(7)

-----------------------------------------------------------------------------
(* Properties of the bank registers and of write_rom.                      *)

\* the banks of the container's ROM and RAM
RomBankCount(b) == b.rom.len \div ROM_BANK_SIZE
RamBankCount(b) == b.ram.len \div RAM_BANK_SIZE

\* ROM addresses read to see whether every one below 0x8000 gives a byte:
\* 0x0000 0x3FFF 0x4000 0x7FFF
RomProbes == {0, 16383, 16384, 32767}

\* C25: in every state reached by write_rom, read_rom, read_mem and write_mem
\* calls the container's rom_bank is below its ROM bank count and, where there
\* is a RAM bank at all, its ram_bank is below its RAM bank count, so that
\* read_rom of an address below 0x8000 returns a byte.
C25_BankIndicesInRange ==
    /\ cart.rom.rom_bank < RomBankCount(cart.rom)
    /\ RamBankCount(cart.rom) > 0 => cart.rom.ram_bank < RamBankCount(cart.rom)
    /\ \A a \in RomProbes : CartridgeMapper_read_rom(cart, a).res.tag = "Some"

\* C26: write_rom on MBC1, MBC2 and MBC3 leaves the ROM bytes as they were,
\* returns Ok for every address below 0x8000 and, at or above 0x8000, returns
\* an error and changes nothing; on a ROM-only cartridge every write_rom
\* returns an error and changes nothing.
C26_WriteRomFrame ==
    [][(last'.name = "write_rom") =>
          IF cart.kind = "RomOnly"
          THEN last'.result = Err /\ cart' = cart
          ELSE /\ cart'.rom.rom = cart.rom.rom
               /\ last'.address < 32768 => last'.result = OkUnit
               /\ last'.address >= 32768 => (last'.result = Err /\ cart' = cart)]_vars
-----------------------------------------------------------------------------
(* cpu.rs: CpuRegister, FlagRegister, CpuData; cpu/instructions.rs          *)

\* CpuRegister discriminants
REG_IDX_A == 0
REG_IDX_B == 1
REG_IDX_C == 2
REG_IDX_D == 3
REG_IDX_E == 4
REG_IDX_H == 5
REG_IDX_L == 6
REG_IDX_F == 7

\* From<u8> for FlagRegister: the two flags the decoder looks at
FlagRegister_zero(value) == BitAnd(value, 128) # 0
FlagRegister_carry(value) == BitAnd(value, 16) # 0

\* CpuData::get_register: registers is a function from 0..7 to bytes
CpuData_get_register(r, idx) == r.registers[idx]

CpuData_set_register(r, idx, value) == [r EXCEPT !.registers[idx] = value]

\* CpuData::get_joined_registers: right = idx1, left = idx2, left.merge(right)
CpuData_get_joined_registers(r, idx1, idx2) ==
    Merge(CpuData_get_register(r, idx2), CpuData_get_register(r, idx1))

\* CpuData::set_joined_registers: idx1 gets right_data, idx2 gets left_data
CpuData_set_joined_registers(r, idx1, idx2, data) ==
    CpuData_set_register(
        CpuData_set_register(r, idx1, Split(data)[2]), idx2, Split(data)[1])

\* Operation: a variant with up to two operands; an operand a variant does
\* not have is 0, a bool operand is 1 for true and 0 for false, and the i8 of
\* AddStackPointer is an integer in -128..127
Operation(name, a, b) == [name |-> name, a |-> a, b |-> b]

Instruction(op, cycles) == [op |-> op, cycles |-> cycles]

-----------------------------------------------------------------------------
(* lib.rs: GameBoySystem.  A system s is the record of its registers        *)
(* (registers, sp, pc) and its memory; t is the wall clock and checks tells *)
(* whether the build checks integer overflow.                               *)

MemoryReadError(address) == [tag |-> "MemoryReadError", val |-> address]
InvalidInstructionError(instruction) == [tag |-> "InvalidInstructionError", val |-> instruction]

\* u8 as i8
AsI8(byte) == IF byte >= 128 THEN byte - 256 ELSE byte

\* (u8 as i8) as u16: sign extension
SignExtend(byte) == IF byte >= 128 THEN byte + 65280 ELSE byte

\* a.overflowing_add(b).0 on u16
OverflowingAdd(a, b) == (a + b) % 65536

\* a call that went wrong: the error, with the system as it stands
Failed(s, res) == [st |-> s, res |-> res]

\* self.registers.pc += n: panics on overflow in a build that checks, wraps
\* in one that does not
GameBoySystem_advance(s, n, checks, value) ==
    IF s.pc + n > 65535 /\ checks
    THEN Failed(s, Panic)
    ELSE [st |-> [s EXCEPT !.pc = (s.pc + n) % 65536], res |-> Ok(value)]

\* the system holding the memory as a read left it
GameBoySystem_read(s, loaded) == [s EXCEPT !.memory = loaded.st]

\* fetch_byte, after the load
GameBoySystem_fetch_byte_loaded(s, checks, byte) ==
    IF byte.res.tag = "Panic"
    THEN Failed(GameBoySystem_read(s, byte), Panic)
    ELSE IF byte.res.tag # "Some"
    THEN Failed(GameBoySystem_read(s, byte), MemoryReadError(s.pc))
    ELSE GameBoySystem_advance(GameBoySystem_read(s, byte), 1, checks, byte.res.val)

GameBoySystem_fetch_byte(s, t, checks) ==
    GameBoySystem_fetch_byte_loaded(
        s, checks, DmgMemoryController_load_byte(s.memory, s.pc, t, checks))

\* fetch_imm16, after the load
GameBoySystem_fetch_imm16_loaded(s, checks, half_word) ==
    IF half_word.res.tag = "Panic"
    THEN Failed(GameBoySystem_read(s, half_word), Panic)
    ELSE IF half_word.res.tag # "Some"
    THEN Failed(GameBoySystem_read(s, half_word), MemoryReadError(s.pc))
    ELSE GameBoySystem_advance(GameBoySystem_read(s, half_word), 2, checks, half_word.res.val)

GameBoySystem_fetch_imm16(s, t, checks) ==
    GameBoySystem_fetch_imm16_loaded(
        s, checks, DmgMemoryController_load_half_word(s.memory, s.pc, t, checks))

\* the register a register index names (reg.into())
CpuRegister_from(reg) == reg

\* self.memory.load_byte(addr).ok_or(MemoryReadError(addr)), with the system
\* as the read left it
GameBoySystem_load_or_error(s, addr, byte) ==
    [st |-> GameBoySystem_read(s, byte),
     res |-> IF byte.res.tag = "Some" THEN Ok(byte.res.val)
             ELSE IF byte.res.tag = "Panic" THEN Panic
             ELSE MemoryReadError(addr)]

GameBoySystem_load(s, addr, t, checks) ==
    GameBoySystem_load_or_error(
        s, addr, DmgMemoryController_load_byte(s.memory, addr, t, checks))

GameBoySystem_get_r8(s, reg, t, checks) ==
    IF reg = 6
    THEN GameBoySystem_load(s, CpuData_get_joined_registers(s, REG_IDX_H, REG_IDX_L), t, checks)
    ELSE [st |-> s, res |-> Ok(CpuData_get_register(s, CpuRegister_from(reg)))]

GameBoySystem_get_r16(s, register) ==
    CASE register = 0 -> CpuData_get_joined_registers(s, REG_IDX_B, REG_IDX_C)
      [] register = 1 -> CpuData_get_joined_registers(s, REG_IDX_D, REG_IDX_E)
      [] register = 2 -> CpuData_get_joined_registers(s, REG_IDX_H, REG_IDX_L)
      [] register = 3 -> s.sp

\* get_r16_mem: the address, and the system after HL moved (registers 2, 3)
GameBoySystem_get_r16_mem(s, register) ==
    CASE register = 0 ->
            [st |-> s, res |-> CpuData_get_joined_registers(s, REG_IDX_B, REG_IDX_C)]
      [] register = 1 ->
            [st |-> s, res |-> CpuData_get_joined_registers(s, REG_IDX_D, REG_IDX_E)]
      [] register = 2 ->
            [st |-> CpuData_set_joined_registers(
                        s, REG_IDX_H, REG_IDX_L,
                        OverflowingAdd(CpuData_get_joined_registers(s, REG_IDX_H, REG_IDX_L), 1)),
             res |-> CpuData_get_joined_registers(s, REG_IDX_H, REG_IDX_L)]
      [] register = 3 ->
            [st |-> CpuData_set_joined_registers(
                        s, REG_IDX_H, REG_IDX_L,
                        OverflowingAdd(CpuData_get_joined_registers(s, REG_IDX_H, REG_IDX_L), 65535)),
             res |-> CpuData_get_joined_registers(s, REG_IDX_H, REG_IDX_L)]

-----------------------------------------------------------------------------
(* cpu/decode.rs.  Every function returns the system after it and          *)
(* Ok(Instruction), an error or a panic.                                   *)

REG_A == 0
REG_MEM_READ == 6

Decoded(s, op, cycles) == [st |-> s, res |-> Ok(Instruction(op, cycles))]

\* an operand fetch f went through: g is the instruction built from it
AfterFetch(f, g) == IF f.res.tag # "Ok" THEN f ELSE [st |-> f.st, res |-> Ok(g)]

GameBoySystem_get_cond_flag(s, flag_code) ==
    CASE flag_code = 0 -> ~FlagRegister_zero(CpuData_get_register(s, REG_IDX_F))
      [] flag_code = 1 -> FlagRegister_zero(CpuData_get_register(s, REG_IDX_F))
      [] flag_code = 2 -> ~FlagRegister_carry(CpuData_get_register(s, REG_IDX_F))
      [] flag_code = 3 -> FlagRegister_carry(CpuData_get_register(s, REG_IDX_F))

\* fault: the displacement is added as an unsigned byte
GameBoySystem_load_jump_relative_fetched_unsigned(instruction, f) ==
    IF f.res.tag # "Ok"
    THEN f
    ELSE IF BitAnd(instruction, 32) = 0
            \/ GameBoySystem_get_cond_flag(f.st, BitAnd(instruction, 24) \div 8)
    THEN Decoded(f.st, Operation("Jump", OverflowingAdd(f.st.pc, f.res.val), 0), 3)
    ELSE Decoded(f.st, Operation("NOP", 0, 0), 2)

\* load_jump_relative, after the displacement byte f was fetched
GameBoySystem_load_jump_relative_fetched(instruction, f) ==
    IF f.res.tag # "Ok"
    THEN f
    ELSE IF BitAnd(instruction, 32) = 0
            \/ GameBoySystem_get_cond_flag(f.st, BitAnd(instruction, 24) \div 8)
    THEN Decoded(f.st, Operation("Jump", OverflowingAdd(f.st.pc, SignExtend(f.res.val)), 0), 3)
    ELSE Decoded(f.st, Operation("NOP", 0, 0), 2)

GameBoySystem_load_jump_relative(s, instruction, t, checks) ==
    GameBoySystem_load_jump_relative_fetched(instruction, GameBoySystem_fetch_byte(s, t, checks))

\* Load16(register, fetch_imm16()?) and Store16(fetch_imm16()?, sp)
GameBoySystem_load_block_0_load16(register, f) ==
    AfterFetch(f, Instruction(Operation("Load16", register, f.res.val), 3))

GameBoySystem_load_block_0_store16(f) ==
    AfterFetch(f, Instruction(Operation("Store16", f.res.val, f.st.sp), 5))

\* Store8(get_r16_mem(register), A), m being what get_r16_mem gave
GameBoySystem_load_block_0_store8(m) ==
    Decoded(m.st, Operation("Store8", m.res, CpuData_get_register(m.st, REG_IDX_A)), 2)

\* Load8(7, load_byte(get_r16_mem(register))), m being what get_r16_mem gave
\* and byte what the load at that address gave
GameBoySystem_load_block_0_load8(m, byte) ==
    IF byte.res.tag # "Ok"
    THEN Failed(byte.st, byte.res)
    ELSE Decoded(byte.st, Operation("Load8", 7, byte.res.val), 2)

GameBoySystem_load_block_0_load8_at(m, t, checks) ==
    GameBoySystem_load_block_0_load8(m, GameBoySystem_load(m.st, m.res, t, checks))

GameBoySystem_load_block_0_16bit(s, instruction, t, checks) ==
    LET fn4 == BitAnd(instruction, 15)
        register == BitAnd(instruction, 24) \div 8
    IN  CASE fn4 = 1 ->
                GameBoySystem_load_block_0_load16(register, GameBoySystem_fetch_imm16(s, t, checks))
          [] fn4 = 2 ->
                GameBoySystem_load_block_0_store8(GameBoySystem_get_r16_mem(s, register))
          [] fn4 = 10 ->
                GameBoySystem_load_block_0_load8_at(GameBoySystem_get_r16_mem(s, register), t, checks)
          [] fn4 = 8 ->
                GameBoySystem_load_block_0_store16(GameBoySystem_fetch_imm16(s, t, checks))
          [] fn4 = 3 -> Decoded(s, Operation("Increment16", register, 0), 2)
          [] fn4 = 11 -> Decoded(s, Operation("Decrement16", register, 0), 2)
          [] fn4 = 9 -> Decoded(s, Operation("Add16", GameBoySystem_get_r16(s, register), 0), 2)
          [] OTHER -> Failed(s, Panic)

GameBoySystem_load_block_0_alu(s, instruction) ==
    CASE instruction = 7 -> Decoded(s, Operation("RotateLeft", 0, 1), 1)
      [] instruction = 15 -> Decoded(s, Operation("RotateRight", 0, 1), 1)
      [] instruction = 23 -> Decoded(s, Operation("RotateLeft", 0, 0), 1)
      [] instruction = 31 -> Decoded(s, Operation("RotateRight", 0, 0), 1)
      [] instruction = 39 -> Decoded(s, Operation("DAA", 0, 0), 1)
      [] instruction = 47 -> Decoded(s, Operation("Complement", 0, 0), 1)
      [] instruction = 55 -> Decoded(s, Operation("SetCarryFlag", 0, 0), 1)
      [] instruction = 63 -> Decoded(s, Operation("ComplementCarryFlag", 0, 0), 1)
      [] OTHER -> Failed(s, Panic)

\* Load8(reg, fetch_byte()?)
GameBoySystem_load_block_0_load_imm8(reg, cycles, f) ==
    AfterFetch(f, Instruction(Operation("Load8", reg, f.res.val), cycles))

GameBoySystem_load_block_0(s, instruction, t, checks) ==
    LET fn3 == BitAnd(instruction, 7)
        reg == BitAnd(instruction \div 16, 3)
        cycles == IF reg = REG_MEM_READ THEN 3 ELSE IF fn3 = 6 THEN 2 ELSE 1
    IN  IF fn3 = 0 /\ BitAnd(instruction, 240) # 0
        THEN GameBoySystem_load_jump_relative(s, instruction, t, checks)
        ELSE IF fn3 < 4
        THEN GameBoySystem_load_block_0_16bit(s, instruction, t, checks)
        ELSE IF fn3 = 7
        THEN GameBoySystem_load_block_0_alu(s, instruction)
        ELSE CASE fn3 = 4 -> Decoded(s, Operation("Increment8", reg, 0), cycles)
               [] fn3 = 5 -> Decoded(s, Operation("Decrement8", reg, 0), cycles)
               [] fn3 = 6 -> GameBoySystem_load_block_0_load_imm8(
                                 reg, cycles, GameBoySystem_fetch_byte(s, t, checks))
               [] OTHER -> Failed(s, Panic)

\* Load8(dest_reg, get_r8(src_reg)?)
GameBoySystem_load_block_1_load(s, dest_reg, value) ==
    IF value.res.tag # "Ok"
    THEN Failed(value.st, value.res)
    ELSE Decoded(value.st, Operation("Load8", dest_reg, value.res.val), 2)

GameBoySystem_load_block_1(s, instruction, t, checks) ==
    LET src_reg == BitAnd(instruction, 7)
        dest_reg == BitAnd(instruction \div 8, 7)
    IN  IF src_reg = dest_reg /\ src_reg = REG_MEM_READ
        THEN Decoded(s, Operation("Halt", 0, 0), 1)
        ELSE GameBoySystem_load_block_1_load(s, dest_reg, GameBoySystem_get_r8(s, src_reg, t, checks))

\* the eight operations on A, by the function code fn3 and the operand
AluOperation(fn3, value) ==
    CASE fn3 = 0 -> Operation("Add8", value, 0)
      [] fn3 = 1 -> Operation("Add8", value, 1)
      [] fn3 = 2 -> Operation("Sub8", value, 0)
      [] fn3 = 3 -> Operation("Sub8", value, 1)
      [] fn3 = 4 -> Operation("And8", value, 0)
      [] fn3 = 5 -> Operation("Xor8", value, 0)
      [] fn3 = 6 -> Operation("Or8", value, 0)
      [] fn3 = 7 -> Operation("Compare8", value, 0)

\* load_block_2 after get_r8(register)?; opcode is instruction >> 3
GameBoySystem_load_block_2_value(s, instruction, value) ==
    LET register == BitAnd(instruction, 7)
        opcode == instruction \div 8
    IN  IF value.res.tag # "Ok"
        THEN Failed(value.st, value.res)
        ELSE IF opcode < 16 \/ opcode > 23
        THEN Failed(value.st, Panic)
        ELSE Decoded(value.st, AluOperation(opcode - 16, value.res.val),
                     IF register = REG_MEM_READ THEN 2 ELSE 1)

GameBoySystem_load_block_2(s, instruction, t, checks) ==
    GameBoySystem_load_block_2_value(
        s, instruction, GameBoySystem_get_r8(s, BitAnd(instruction, 7), t, checks))

GameBoySystem_load_block_3_alu_fetched(instruction, f) ==
    AfterFetch(f, Instruction(AluOperation(BitAnd(instruction \div 8, 7), f.res.val), 2))

GameBoySystem_load_block_3_alu(s, instruction, t, checks) ==
    GameBoySystem_load_block_3_alu_fetched(instruction, GameBoySystem_fetch_byte(s, t, checks))

GameBoySystem_load_block_3_stack(s, instruction) ==
    LET r16stk == BitAnd(instruction \div 16, 3)
    IN  CASE BitAnd(instruction, 15) = 1 -> Decoded(s, Operation("PopStack", r16stk, 0), 3)
          [] BitAnd(instruction, 15) = 5 -> Decoded(s, Operation("PushStack", r16stk, 0), 3)
          [] OTHER -> Failed(s, Panic)

\* Jump(fetch_imm16()?) and Call(fetch_imm16()?)
GameBoySystem_load_imm16_target(name, cycles, f) ==
    AfterFetch(f, Instruction(Operation(name, f.res.val, 0), cycles))

GameBoySystem_load_block_3_cond(s, instruction, t, checks) ==
    LET fn3 == BitAnd(instruction, 7)
        cond_flag == GameBoySystem_get_cond_flag(s, BitAnd(instruction \div 8, 3))
    IN  IF ~cond_flag
        THEN CASE fn3 = 0 -> Decoded(s, Operation("NOP", 0, 0), 2)
               [] fn3 = 2 -> Decoded(s, Operation("NOP", 0, 0), 3)
               [] fn3 = 4 -> Decoded(s, Operation("NOP", 0, 0), 3)
               [] OTHER -> Failed(s, Panic)
        ELSE CASE fn3 = 0 -> Decoded(s, Operation("Return", 0, 0), 5)
               [] fn3 = 2 -> GameBoySystem_load_imm16_target(
                                 "Jump", 4, GameBoySystem_fetch_imm16(s, t, checks))
               [] fn3 = 4 -> GameBoySystem_load_imm16_target(
                                 "Call", 6, GameBoySystem_fetch_imm16(s, t, checks))
               [] OTHER -> Failed(s, Panic)

PrefixedAluName(fn3) ==
    CASE fn3 \in {0, 2} -> "RotateLeft"
      [] fn3 \in {1, 3} -> "RotateRight"
      [] fn3 = 4 -> "ShiftLeftArithmetic"
      [] fn3 = 5 -> "ShiftRightArithmetic"
      [] fn3 = 6 -> "SwapBits"
      [] fn3 = 7 -> "ShiftRightLogical"

GameBoySystem_load_prefixed_alu(fn3, register) ==
    Operation(PrefixedAluName(fn3), register, IF fn3 < 2 THEN 1 ELSE 0)

GameBoySystem_load_prefixed_fetched(f) ==
    LET instruction == f.res.val
        fn2 == instruction \div 64
        index == BitAnd(instruction \div 8, 7)
        register == BitAnd(instruction, 7)
        cycles == IF fn2 = 1 /\ register = REG_MEM_READ THEN 3
                  ELSE IF register = REG_MEM_READ THEN 4 ELSE 2
    IN  IF f.res.tag # "Ok"
        THEN f
        ELSE CASE fn2 = 0 -> Decoded(f.st, GameBoySystem_load_prefixed_alu(index, register), cycles)
               [] fn2 = 1 -> Decoded(f.st, Operation("TestBit", register, index), cycles)
               [] fn2 = 2 -> Decoded(f.st, Operation("ResetBit", register, index), cycles)
               [] fn2 = 3 -> Decoded(f.st, Operation("SetBit", register, index), cycles)

GameBoySystem_load_prefixed(s, t, checks) ==
    GameBoySystem_load_prefixed_fetched(GameBoySystem_fetch_byte(s, t, checks))

\* Store8(0xFF00 + fetch_byte()?, A)
GameBoySystem_load_block_3_store_high(f) ==
    AfterFetch(f, Instruction(Operation("Store8", 65280 + f.res.val,
                                        CpuData_get_register(f.st, REG_IDX_A)), 3))

\* Store8(fetch_imm16()?, A)
GameBoySystem_load_block_3_store_imm16(f) ==
    AfterFetch(f, Instruction(Operation("Store8", f.res.val,
                                        CpuData_get_register(f.st, REG_IDX_A)), 4))

\* Load8(REG_A, load_byte(addr)?)
GameBoySystem_load_block_3_load_a(s, cycles, byte) ==
    IF byte.res.tag # "Ok"
    THEN Failed(byte.st, byte.res)
    ELSE Decoded(byte.st, Operation("Load8", REG_A, byte.res.val), cycles)

\* the address was fetched by f (a byte or a half word), base is added to it
GameBoySystem_load_block_3_load_fetched(f, base, cycles, t, checks) ==
    IF f.res.tag # "Ok"
    THEN f
    ELSE GameBoySystem_load_block_3_load_a(
             f.st, cycles, GameBoySystem_load(f.st, base + f.res.val, t, checks))

GameBoySystem_load_block_3_add_sp(f) ==
    AfterFetch(f, Instruction(Operation("AddStackPointer", AsI8(f.res.val), 0), 4))

GameBoySystem_load_block_3_load_hl(f) ==
    AfterFetch(f, Instruction(Operation("Load16", 2,
                                        OverflowingAdd(f.st.sp, SignExtend(f.res.val))), 3))

\* the match on the instruction that ends load_block_3
GameBoySystem_load_block_3_match(s, instruction, t, checks) ==
    CASE instruction = 201 -> Decoded(s, Operation("Return", 0, 0), 4)
      [] instruction = 217 -> Decoded(s, Operation("Return", 1, 0), 4)
      [] instruction = 195 ->
            GameBoySystem_load_imm16_target("Jump", 4, GameBoySystem_fetch_imm16(s, t, checks))
      [] instruction = 233 ->
            Decoded(s, Operation("Jump", CpuData_get_joined_registers(s, REG_IDX_H, REG_IDX_L), 0), 1)
      [] instruction = 205 ->
            GameBoySystem_load_imm16_target("Call", 6, GameBoySystem_fetch_imm16(s, t, checks))
      [] instruction = 224 ->
            GameBoySystem_load_block_3_store_high(GameBoySystem_fetch_byte(s, t, checks))
      [] instruction = 226 ->
            Decoded(s, Operation("Store8", 65280 + CpuData_get_register(s, REG_IDX_C),
                                 CpuData_get_register(s, REG_IDX_A)), 2)
      [] instruction = 234 ->
            GameBoySystem_load_block_3_store_imm16(GameBoySystem_fetch_imm16(s, t, checks))
      [] instruction = 240 ->
            GameBoySystem_load_block_3_load_fetched(
                GameBoySystem_fetch_byte(s, t, checks), 65280, 3, t, checks)
      [] instruction = 242 ->
            GameBoySystem_load_block_3_load_a(
                s, 3, GameBoySystem_load(s, 65280 + CpuData_get_register(s, REG_IDX_C), t, checks))
      [] instruction = 250 ->
            GameBoySystem_load_block_3_load_fetched(
                GameBoySystem_fetch_imm16(s, t, checks), 0, 4, t, checks)
      [] instruction = 232 ->
            GameBoySystem_load_block_3_add_sp(GameBoySystem_fetch_byte(s, t, checks))
      [] instruction = 248 ->
            GameBoySystem_load_block_3_load_hl(GameBoySystem_fetch_byte(s, t, checks))
      [] instruction = 249 ->
            Decoded(s, Operation("SetStackPointer",
                                 CpuData_get_joined_registers(s, REG_IDX_H, REG_IDX_L), 0), 2)
      [] instruction = 243 -> Decoded(s, Operation("DisableInterrupts", 0, 0), 1)
      [] instruction = 251 -> Decoded(s, Operation("EnableInterrupts", 0, 0), 1)
      [] OTHER -> Failed(s, InvalidInstructionError(instruction))

GameBoySystem_load_block_3(s, instruction, t, checks) ==
    LET fn3 == BitAnd(instruction, 7)
        tgt == BitAnd(instruction, 56)
        fn4 == BitAnd(instruction, 15)
    IN  IF instruction = 203
        THEN GameBoySystem_load_prefixed(s, t, checks)
        ELSE IF fn3 = 6
        THEN GameBoySystem_load_block_3_alu(s, instruction, t, checks)
        ELSE IF fn3 = 7 /\ BitAnd(instruction, 2) # 0
        THEN Decoded(s, Operation("Call", tgt, 0), 4)
        ELSE IF fn4 = 1 \/ fn4 = 5
        THEN GameBoySystem_load_block_3_stack(s, instruction)
        ELSE IF BitAnd(instruction, 1) = 0
        THEN GameBoySystem_load_block_3_cond(s, instruction, t, checks)
        ELSE GameBoySystem_load_block_3_match(s, instruction, t, checks)

\* load_instruction after its fetch_byte()?: Stop skips a byte with pc += 1
GameBoySystem_load_instruction_fetched(f, t, checks) ==
    LET instruction == f.res.val
        block == BitAnd(instruction, 192) \div 64
    IN  IF f.res.tag # "Ok"
        THEN f
        ELSE IF instruction = 0
        THEN Decoded(f.st, Operation("NOP", 0, 0), 1)
        ELSE IF instruction = 16
        THEN GameBoySystem_advance(f.st, 1, checks, Instruction(Operation("Stop", 0, 0), 1))
        ELSE CASE block = 0 -> GameBoySystem_load_block_0(f.st, instruction, t, checks)
               [] block = 1 -> GameBoySystem_load_block_1(f.st, instruction, t, checks)
               [] block = 2 -> GameBoySystem_load_block_2(f.st, instruction, t, checks)
               [] block = 3 -> GameBoySystem_load_block_3(f.st, instruction, t, checks)

GameBoySystem_load_instruction(s, t, checks) ==
    GameBoySystem_load_instruction_fetched(GameBoySystem_fetch_byte(s, t, checks), t, checks)

-----------------------------------------------------------------------------
(* A GameBoySystem over a DmgMemoryController with a ROM-only cartridge.    *)
(* cart holds the system; an instruction of up to three bytes lies at pc,   *)
(* memory is zero elsewhere.                                                *)

\* GameBoySystem::new with CpuData::new, then registers, sp and pc as given
GameBoySystem_new(memory, registers, sp, pc) ==
    [kind |-> "GB", registers |-> registers, sp |-> sp, pc |-> pc,
     memory |-> memory, decoded |-> 0]

\* instructions decoded in one behaviour
MaxDecodes == 2

\* where the instruction lies: 0x0100 (ROM), 0xDFFE (its third byte is
\* unmapped), 0xFFFD (it ends at 0xFFFF) and 0xFFFF (only its first byte fits)
ProgramStarts == {256, 57342, 65533, 65535}

\* the two bytes after the opcode: 0xFE 0x01, 0x05 0xC0 and 0xE0 0xE0
OperandBytes == {<<254, 1>>, <<5, 192>>, <<224, 224>>}

\* registers A B C D E H L F and sp: every value of the zero and carry flags;
\* H and L name mapped memory in three of them and unmapped memory in one
RegisterStates ==
    {<<<<17, 34, 128, 68, 85, 192, 193, 0>>, 65534>>,
     <<<<17, 34, 128, 68, 85, 192, 193, 128>>, 65535>>,
     <<<<17, 34, 128, 68, 85, 224, 224, 16>>, 1>>,
     <<<<17, 34, 128, 68, 85, 192, 193, 144>>, 4096>>}

\* the ROM image with the bytes of code from 0x0100 on
RomWith(code) ==
    [len |-> ROM_SIZE,
     nz |-> [i \in {256 + (k - 1) : k \in {j \in 1 .. Len(code) : code[j] # 0}}
                |-> code[(i - 256) + 1]]]

\* the memory with the bytes of code stored from address at on, where they
\* fit below 0x10000
MemoryWith(m, at, code, t) ==
    LET one == IF Len(code) >= 1 /\ at <= 65535
               THEN DmgMemoryController_store_byte(m, at, code[1], t).st ELSE m
        two == IF Len(code) >= 2 /\ at + 1 <= 65535
               THEN DmgMemoryController_store_byte(one, at + 1, code[2], t).st ELSE one
    IN  IF Len(code) >= 3 /\ at + 2 <= 65535
        THEN DmgMemoryController_store_byte(two, at + 2, code[3], t).st ELSE two

\* the system with code at pc
SystemWith(pc, code, regs) ==
    GameBoySystem_new(
        IF pc < ROM_SIZE
        THEN DmgMemoryController_new(RomOnlyCartridge_new(RomWith(code), TRUE, FALSE).val)
        ELSE MemoryWith(DmgMemoryController_new(RomOnlyCartridge_new(VecZero(0), TRUE, FALSE).val),
                        pc, code, 0),
        [i \in 0 .. 7 |-> regs[1][i + 1]], regs[2], pc)

\* the address of a load_instruction call is pc before it, its data the byte
\* there (0 when the byte cannot be read)
LoadInstruction ==
    LET r == GameBoySystem_load_instruction(cart, now, overflow_checks)
        first == DmgMemoryController_load_byte(cart.memory, cart.pc, now, overflow_checks)
    IN  /\ cart.kind = "GB"
        /\ cart.decoded < MaxDecodes
        /\ last.result.tag # "Panic"
        /\ cart' = [r.st EXCEPT !.decoded = cart.decoded + 1]
        /\ last' = Call("load_instruction", cart.pc, first.res.val, r.res)
        /\ UNCHANGED <<now, overflow_checks>>

InitCPU ==
    /\ \E pc \in ProgramStarts : \E opcode \in 0 .. 255 : \E operands \in OperandBytes :
       \E regs \in RegisterStates :
           cart = SystemWith(pc, <<opcode>> \o operands, regs)
    /\ last = Call("new", 0, 0, OkUnit)
    /\ now = 0
    /\ overflow_checks \in BOOLEAN

NextCPU == LoadInstruction

SpecCPU == InitCPU /\ [][NextCPU]_vars

-----------------------------------------------------------------------------
(* Properties of the decoder, under SpecCPU.                               *)

\* the opcodes the hardware does not define
InvalidOpcodes == {211, 219, 221, 227, 228, 235, 236, 237, 244, 252, 253}

\* the byte at pc, the first byte of the next load_instruction
FirstByte(s) == DmgMemoryController_load_byte(s.memory, s.pc, now, overflow_checks).res

\* load_instruction was just called on a readable first byte
Decoding == last'.name = "load_instruction" /\ FirstByte(cart).tag = "Some"

\* C27: whenever the first byte is not one of the eleven undefined opcodes,
\* whatever the operand bytes, flags and registers, load_instruction returns
\* Ok or a MemoryReadError: it neither returns InvalidInstructionError nor
\* panics.
C27_DecoderTotality ==
    [][(Decoding /\ FirstByte(cart).val \notin InvalidOpcodes) =>
          last'.result.tag \in {"Ok", "MemoryReadError"}]_vars

\* C28: whenever the first byte is one of the eleven undefined opcodes,
\* whatever the flags and registers, a load_instruction that returns returns
\* InvalidInstructionError carrying that byte, never an Ok instruction.
C28_DecoderRejection ==
    [][(Decoding /\ FirstByte(cart).val \in InvalidOpcodes /\ last'.result.tag # "Panic") =>
          last'.result = InvalidInstructionError(FirstByte(cart).val)]_vars

\* the operand bytes after the opcode at pc, read from the bus as fetch_byte
\* and fetch_imm16 read them, and the byte the bus holds at an address
Imm8(s) == DmgMemoryController_load_byte(s.memory, (s.pc + 1) % 65536, now, overflow_checks).res.val
Imm16(s) ==
    DmgMemoryController_load_half_word(s.memory, (s.pc + 1) % 65536, now, overflow_checks).res.val
BusAt(s, address) == DmgMemoryController_load_byte(s.memory, address, now, overflow_checks).res.val

\* the lookup table of the block-3 opcodes 0xE0 0xE2 0xEA 0xF0 0xF2 0xFA 0xE8
\* 0xF8
ExplicitOpcodes == {224, 226, 234, 240, 242, 250, 232, 248}

ExplicitTable(opcode, s) ==
    CASE opcode = 224 ->
            Instruction(Operation("Store8", BitOr(65280, Imm8(s)), s.registers[REG_IDX_A]), 3)
      [] opcode = 226 ->
            Instruction(Operation("Store8", BitOr(65280, s.registers[REG_IDX_C]),
                                  s.registers[REG_IDX_A]), 2)
      [] opcode = 234 ->
            Instruction(Operation("Store8", Imm16(s), s.registers[REG_IDX_A]), 4)
      [] opcode = 240 ->
            Instruction(Operation("Load8", REG_A, BusAt(s, BitOr(65280, Imm8(s)))), 3)
      [] opcode = 242 ->
            Instruction(Operation("Load8", REG_A, BusAt(s, BitOr(65280, s.registers[REG_IDX_C]))), 3)
      [] opcode = 250 ->
            Instruction(Operation("Load8", REG_A, BusAt(s, Imm16(s))), 4)
      [] opcode = 232 ->
            Instruction(Operation("AddStackPointer", AsI8(Imm8(s)), 0), 4)
      [] opcode = 248 ->
            Instruction(Operation("Load16", 2, (s.sp + AsI8(Imm8(s))) % 65536), 3)

\* C29: in every flag state, a load_instruction that decodes one of the eight
\* opcodes 0xE0 0xE2 0xEA 0xF0 0xF2 0xFA 0xE8 0xF8 returns the operation and
\* the cycles of the lookup table, so never a conditional return, jump or call
\* nor the NOP of an untaken one.
C29_ExplicitOpcodes ==
    [][(Decoding /\ FirstByte(cart).val \in ExplicitOpcodes /\ last'.result.tag = "Ok") =>
          last'.result.val = ExplicitTable(FirstByte(cart).val, cart)]_vars

\* the relative jumps: JR, and JR NZ / Z / NC / C
RelativeJumps == {24, 32, 40, 48, 56}

\* the condition (op >> 3) & 3 of a conditional relative jump, on the flag byte
ConditionHolds(opcode, flags) ==
    CASE (opcode \div 8) % 4 = 0 -> (flags \div 128) % 2 = 0
      [] (opcode \div 8) % 4 = 1 -> (flags \div 128) % 2 = 1
      [] (opcode \div 8) % 4 = 2 -> (flags \div 16) % 2 = 0
      [] (opcode \div 8) % 4 = 3 -> (flags \div 16) % 2 = 1

\* C30: a load_instruction that decodes a relative jump at address p with
\* displacement byte d and returns Ok leaves pc two bytes on; for 0x18, and for
\* 0x20 0x28 0x30 0x38 when the condition NZ, Z, NC, C holds on the flags, it
\* returns Jump((p + 2 + signed d) mod 2^16) with 3 cycles, and (NOP, 2 cycles)
\* when the condition does not hold.
C30_RelativeJump ==
    [][(Decoding /\ FirstByte(cart).val \in RelativeJumps /\ last'.result.tag = "Ok") =>
          /\ cart'.pc = (cart.pc + 2) % 65536
          /\ last'.result.val =
                IF FirstByte(cart).val = 24
                      \/ ConditionHolds(FirstByte(cart).val, cart.registers[REG_IDX_F])
                THEN Instruction(Operation("Jump", (cart.pc + 2 + AsI8(Imm8(cart))) % 65536, 0), 3)
                ELSE Instruction(Operation("NOP", 0, 0), 2)]_vars

\* JR with displacement 0xFE at 0x0100 was decoded as a jump to 0x0100
C30_Witness ==
    /\ last.name = "load_instruction"
    /\ last.address = 256
    /\ last.data = 24
    /\ last.result = Ok(Instruction(Operation("Jump", 256, 0), 3))
    /\ cart.pc = 258

-----------------------------------------------------------------------------
(* Properties of the block-0 decoder and of the program counter, under     *)
(* SpecCPU.                                                                *)

\* the block-0 opcodes of the 16-bit family that carry a register pair in bits
\* 5-4, and 0x08
SixteenBitOpcodes ==
    {op \in 0 .. 63 : op % 16 \in {1, 3, 9, 11}} \cup {8}

\* what the 16-bit family decodes to when the pair is (op >> 4) & 3
SixteenBitTable(opcode, s) ==
    CASE opcode = 8 -> Instruction(Operation("Store16", Imm16(s), s.sp), 5)
      [] opcode % 16 = 1 ->
            Instruction(Operation("Load16", (opcode \div 16) % 4, Imm16(s)), 3)
      [] opcode % 16 = 3 ->
            Instruction(Operation("Increment16", (opcode \div 16) % 4, 0), 2)
      [] opcode % 16 = 11 ->
            Instruction(Operation("Decrement16", (opcode \div 16) % 4, 0), 2)
      [] opcode % 16 = 9 ->
            Instruction(Operation("Add16", GameBoySystem_get_r16(s, (opcode \div 16) % 4), 0), 2)

\* C31: a load_instruction that decodes an opcode of the block-0 16-bit
\* family and returns Ok gives Load16, Increment16, Decrement16 or Add16 of
\* the register pair (op >> 4) & 3 with 3, 2, 2 and 2 cycles, and
\* Store16(imm16, sp) with 5 cycles for 0x08.
C31_SixteenBitFamily ==
    [][(Decoding /\ FirstByte(cart).val \in SixteenBitOpcodes /\ last'.result.tag = "Ok") =>
          last'.result.val = SixteenBitTable(FirstByte(cart).val, cart)]_vars

\* HL as the register file reads the pair
HLOf(s) == CpuData_get_joined_registers(s, REG_IDX_H, REG_IDX_L)

\* HL after decoding opcode: one up for 0x22 and 0x2A, one down for 0x32 and
\* 0x3A, as it was for every other opcode
HLAfter(opcode, hl) ==
    CASE opcode \in {34, 42} -> (hl + 1) % 65536
      [] opcode \in {50, 58} -> (hl + 65535) % 65536
      [] OTHER -> hl

\* C32: a load_instruction that returns leaves the memory, sp and the
\* registers A, B, C, D, E, F as they were; it leaves HL as it was too, except
\* that 0x22 and 0x2A add 1 to HL and 0x32 and 0x3A subtract 1, modulo 2^16,
\* the store or load of these four using HL as it was before the call.
C32_DecodeFrame ==
    [][(Decoding /\ last'.result.tag # "Panic") =>
          /\ cart'.memory = cart.memory
          /\ cart'.sp = cart.sp
          /\ \A r \in {REG_IDX_A, REG_IDX_B, REG_IDX_C, REG_IDX_D, REG_IDX_E, REG_IDX_F} :
                cart'.registers[r] = cart.registers[r]
          /\ HLOf(cart') = HLAfter(FirstByte(cart).val, HLOf(cart))
          /\ (FirstByte(cart).val \in {34, 50} /\ last'.result.tag = "Ok") =>
                last'.result.val.op.a = HLOf(cart)
          /\ (FirstByte(cart).val \in {42, 58} /\ last'.result.tag = "Ok") =>
                last'.result.val.op.b = BusAt(cart, HLOf(cart))]_vars

\* the opcodes whose decoding reads a data byte besides the bytes it fetches:
\* LD A, [r16mem], and the block-1, block-2 and LDH / LD A, [imm16] opcodes
\* with a memory operand
DataLoadOpcodes ==
    {10, 26, 42, 58} \cup {op \in 64 .. 191 : op % 8 = 6} \cup {240, 242, 250}

\* whether the bus can read address
Readable(s, address) ==
    DmgMemoryController_load_byte(s.memory, address, now, overflow_checks).res.tag = "Some"

\* C33: when a load_instruction whose only reads are fetches returns a memory
\* read error, the error names an address that cannot be read, pc is that
\* address (advanced past the bytes fetched and not past the failed one) and
\* every byte from the old pc up to it could be read.
C33_FetchFailure ==
    [][(/\ last'.name = "load_instruction"
        /\ FirstByte(cart).tag = "Some" => FirstByte(cart).val \notin DataLoadOpcodes
        /\ last'.result.tag = "MemoryReadError") =>
          /\ ~Readable(cart, last'.result.val)
          /\ cart'.pc = last'.result.val
          /\ \A k \in 0 .. 2 :
                (cart.pc + k < last'.result.val) => Readable(cart, cart.pc + k)]_vars

-----------------------------------------------------------------------------
(* The register file alone: cart is a CpuData, with the number of pair      *)
(* stores made on it.                                                       *)

\* CpuData::new
CpuData_new == [kind |-> "CpuData", registers |-> [i \in 0 .. 7 |-> 0], sp |-> 0, pc |-> 0, sets |-> 0]

\* stores (of a pair, a register, sp or pc) in one behaviour
MaxSets == 2

\* the pairs B+C, D+E and H+L, the high letter first
RegisterPairs == {<<REG_IDX_B, REG_IDX_C>>, <<REG_IDX_D, REG_IDX_E>>, <<REG_IDX_H, REG_IDX_L>>}

\* the words stored: 0xBEEF, 0x0000, 0x00FF, 0xFF00, 0x1234
PairWords == {48879, 0, 255, 65280, 4660}

\* the address of a pair call is the index of its first register
SetJoinedRegisters ==
    \E pair \in RegisterPairs : \E w \in PairWords :
        /\ cart.kind = "CpuData"
        /\ cart.sets < MaxSets
        /\ cart' = [CpuData_set_joined_registers(cart, pair[1], pair[2], w)
                       EXCEPT !.sets = cart.sets + 1]
        /\ last' = Call("set_joined_registers", pair[1], w, OkUnit)
        /\ UNCHANGED <<now, overflow_checks>>

GetJoinedRegisters ==
    \E pair \in RegisterPairs :
        /\ cart.kind = "CpuData"
        /\ cart' = cart
        /\ last' = Call("get_joined_registers", pair[1], 0,
                        Ok(CpuData_get_joined_registers(cart, pair[1], pair[2])))
        /\ UNCHANGED <<now, overflow_checks>>

\* single registers stored, one outside every pair and one half of each
\* pair, and the byte stored
SingleRegisters == {REG_IDX_A, REG_IDX_C, REG_IDX_D, REG_IDX_L, REG_IDX_F}
RegisterBytes == {9}

\* the address of a register call is the index of the register
SetCpuRegister ==
    \E idx \in SingleRegisters : \E value \in RegisterBytes :
        /\ cart.kind = "CpuData"
        /\ cart.sets < MaxSets
        /\ cart' = [CpuData_set_register(cart, idx, value) EXCEPT !.sets = cart.sets + 1]
        /\ last' = Call("set_register", idx, value, OkUnit)
        /\ UNCHANGED <<now, overflow_checks>>

\* the public fields sp and pc, assigned from outside
StackPointers == {65534}
ProgramCounters == {256}

SetStackPointer ==
    \E w \in StackPointers :
        /\ cart.kind = "CpuData"
        /\ cart.sets < MaxSets
        /\ cart' = [cart EXCEPT !.sp = w, !.sets = cart.sets + 1]
        /\ last' = Call("set_sp", 0, w, OkUnit)
        /\ UNCHANGED <<now, overflow_checks>>

SetProgramCounter ==
    \E w \in ProgramCounters :
        /\ cart.kind = "CpuData"
        /\ cart.sets < MaxSets
        /\ cart' = [cart EXCEPT !.pc = w, !.sets = cart.sets + 1]
        /\ last' = Call("set_pc", 0, w, OkUnit)
        /\ UNCHANGED <<now, overflow_checks>>

InitRegs ==
    /\ cart = CpuData_new
    /\ last = Call("new", 0, 0, OkUnit)
    /\ now = 0
    /\ overflow_checks \in BOOLEAN

NextRegs ==
    \/ SetJoinedRegisters
    \/ GetJoinedRegisters
    \/ SetCpuRegister
    \/ SetStackPointer
    \/ SetProgramCounter

SpecRegs == InitRegs /\ [][NextRegs]_vars

-----------------------------------------------------------------------------
(* Properties of the register pairs, under SpecRegs.                        *)

\* C34: after set_joined_registers(X, Y, w) on a pair B+C, D+E or H+L, X holds
\* the most significant byte of w and Y the least significant one,
\* get_joined_registers(X, Y) is w, and every other register, sp and pc are as
\* they were.
C34_PairPacking ==
    [][(last'.name = "set_joined_registers") =>
          LET X == last'.address
              Y == last'.address + 1
              w == last'.data
          IN  /\ cart'.registers[X] = w \div 256
              /\ cart'.registers[Y] = w % 256
              /\ CpuData_get_joined_registers(cart', X, Y) = w
              /\ \A r \in (0 .. 7) \ {X, Y} : cart'.registers[r] = cart.registers[r]
              /\ cart'.sp = cart.sp /\ cart'.pc = cart.pc]_vars

-----------------------------------------------------------------------------
(* utils.rs alone: cart holds nothing, last is the call made.               *)

\* the low bytes merged, and the words split: every high byte with each
LowBytes == {0, 239, 255}

MergeBytes ==
    \E hi \in 0 .. 255 : \E lo \in LowBytes :
        /\ cart.kind = "Utils"
        /\ cart' = cart
        /\ last' = Call("merge", hi, lo, Ok(Merge(hi, lo)))
        /\ UNCHANGED <<now, overflow_checks>>

SplitWord ==
    \E hi \in 0 .. 255 : \E lo \in LowBytes :
        /\ cart.kind = "Utils"
        /\ cart' = cart
        /\ last' = Call("split", (hi * 256) + lo, 0, Ok(Split((hi * 256) + lo)))
        /\ UNCHANGED <<now, overflow_checks>>

InitUtils ==
    /\ cart = [kind |-> "Utils"]
    /\ last = Call("new", 0, 0, OkUnit)
    /\ now = 0
    /\ overflow_checks \in BOOLEAN

NextUtils == MergeBytes \/ SplitWord

SpecUtils == InitUtils /\ [][NextUtils]_vars

-----------------------------------------------------------------------------
(* Properties of split and merge, under SpecUtils.                          *)

\* C35: the word hi.merge(lo) fits 16 bits and splits back into (hi, lo), and
\* merging the two halves of w.split() gives w back.
C35_SplitMergeRoundTrip ==
    [][/\ (last'.name = "merge") =>
             /\ last'.result.val \in 0 .. 65535
             /\ Split(last'.result.val) = <<last'.address, last'.data>>
       /\ (last'.name = "split") =>
             Merge(last'.result.val[1], last'.result.val[2]) = last'.address]_vars

\* 0xBE merged with 0xEF gave 0xBEEF
C35_Witness ==
    /\ last.name = "merge"
    /\ last.address = 190
    /\ last.data = 239
    /\ last.result.val = 48879

-----------------------------------------------------------------------------
(* memory/cartridge/builder.rs: TryFrom<Vec<u8>> for Box<dyn CartridgeMapper> *)

\* RealTimeClock::default(): a clock with every register zero
RealTimeClock_default(t) == RealTimeClock_new(0, 0, 0, 0, 0, t)

\* the match on ram_size: the bank count, or -1 for the rejecting arm
CartridgeFactory_mem_banks(ram_size) ==
    CASE ram_size = 0 -> 0
      [] ram_size \in 1 .. 2 -> 1
      [] ram_size = 3 -> 4
      [] ram_size = 4 -> 16
      [] ram_size = 5 -> 8
      [] OTHER -> -1

\* the match on cartridge_type: Ok(Box::new(X::new(..)?)) is the constructor's
\* own result, its error or panic included
CartridgeFactory_build(rom, cartridge_type, rom_banks, mem_banks, t) ==
    CASE cartridge_type = 0 -> RomOnlyCartridge_new(rom, FALSE, FALSE)
      [] cartridge_type = 8 -> RomOnlyCartridge_new(rom, TRUE, FALSE)
      [] cartridge_type = 9 -> RomOnlyCartridge_new(rom, TRUE, TRUE)
      [] cartridge_type = 1 -> MBC1_new(rom, rom_banks, 0, FALSE)
      [] cartridge_type = 2 -> MBC1_new(rom, rom_banks, mem_banks, FALSE)
      [] cartridge_type = 3 -> MBC1_new(rom, rom_banks, mem_banks, TRUE)
      [] cartridge_type = 5 -> MBC2_create(rom, rom_banks, FALSE)
      [] cartridge_type = 6 -> MBC2_create(rom, rom_banks, TRUE)
      [] cartridge_type = 15 -> MBC3_new(rom, rom_banks, 0, TRUE, Some(RealTimeClock_default(t)))
      [] cartridge_type = 16 ->
            MBC3_new(rom, rom_banks, mem_banks, TRUE, Some(RealTimeClock_default(t)))
      [] cartridge_type = 17 -> MBC3_new(rom, rom_banks, 0, FALSE, None)
      [] cartridge_type = 18 -> MBC3_new(rom, rom_banks, mem_banks, FALSE, None)
      [] cartridge_type = 19 -> MBC3_new(rom, rom_banks, mem_banks, TRUE, None)
      [] OTHER -> UnsupportedType

\* try_from: the type from 0x147, the ROM size and the RAM size both from
\* 0x148; rom_banks is 2 << rom_size on a u8, computed before the match on
\* ram_size: a shift by 8 or more panics in a build with overflow checks and
\* shifts by rom_size % 8 in one without
CartridgeFactory_try_from(rom, t, checks) ==
    LET cartridge_type == VecGet(rom, 327)
        rom_size == VecGet(rom, 328)
        ram_size == VecGet(rom, 328)
    IN  IF cartridge_type.tag = "None" \/ rom_size.tag = "None" \/ ram_size.tag = "None"
        THEN InvalidRomFile
        ELSE IF rom_size.val >= 8 /\ checks
        THEN Panic
        ELSE IF CartridgeFactory_mem_banks(ram_size.val) < 0
        THEN InvalidRomFile
        ELSE CartridgeFactory_build(rom, cartridge_type.val, ShlU8(2, rom_size.val % 8),
                                    CartridgeFactory_mem_banks(ram_size.val), t)

-----------------------------------------------------------------------------
(* The factory alone: cart is what it built, or no cartridge; last holds    *)
(* the length of the ROM and its three header bytes.                        *)

\* ROM lengths: too short for any header byte, up to 0x147, up to 0x148, up
\* to 0x149, a whole 32 KiB image, and one byte more than that
RomLengths == {256, 328, 329, 330, 32768, 32769}

\* header bytes: types of every variant and two that are not recognised; size
\* codes inside and outside the tables
HeaderTypes == {0, 1, 3, 4, 6, 8, 16, 18, 19, 252}
RomSizeCodes == {0, 1, 3, 5, 6, 8}
RamSizeCodes == {0, 1, 2, 3, 4, 5, 6}

\* a ROM of length len, zero but for the header bytes that fit in it
HeaderRom(len, header) ==
    [len |-> len,
     nz |-> [i \in {j \in 327 .. 329 : j < len /\ header[(j - 327) + 1] # 0}
                |-> header[(i - 327) + 1]]]

TryFrom ==
    \E len \in RomLengths : \E ty \in HeaderTypes : \E romc \in RomSizeCodes :
    \E ramc \in RamSizeCodes :
        LET r == CartridgeFactory_try_from(HeaderRom(len, <<ty, romc, ramc>>), now,
                                           overflow_checks)
        IN  /\ cart.kind = "NoCartridge"
            /\ cart' = IF r.tag = "Ok" THEN r.val ELSE [kind |-> "Rejected"]
            /\ last' = Call("try_from", len, <<ty, romc, ramc>>, [tag |-> r.tag, val |-> 0])
            /\ UNCHANGED <<now, overflow_checks>>

InitFactory ==
    /\ cart = [kind |-> "NoCartridge"]
    /\ last = Call("new", 0, 0, OkUnit)
    /\ now = 0
    /\ overflow_checks \in BOOLEAN

NextFactory == TryFrom

SpecFactory == InitFactory /\ [][NextFactory]_vars

-----------------------------------------------------------------------------
(* Properties of the factory, under SpecFactory.                            *)

\* the RAM size table of the header: 0->0, 1->1, 2->1, 3->4, 4->16, 5->8
RamSizeTable == (0 :> 0) @@ (1 :> 1) @@ (2 :> 1) @@ (3 :> 4) @@ (4 :> 16) @@ (5 :> 8)

\* the cartridge types the factory knows, and those it builds with the RAM
\* bank count of the header
RecognisedTypes == {0, 8, 9, 1, 2, 3, 5, 6, 15, 16, 17, 18, 19}
TypesWithRamBanks == {2, 3, 16, 18, 19}

\* the images a constructor takes: no longer than ROM_SIZE for the types
\* without a mapper, no longer than the banks of the header for the others
ImageFits(len, ty, romc) ==
    IF ty \in {0, 8, 9} THEN len <= ROM_SIZE ELSE len <= ROM_BANK_SIZE * ShlU8(2, romc)

\* C36: try_from on a ROM too short to hold the header bytes 0x147..0x149
\* returns InvalidRomFile; otherwise a RAM size code at 0x149 outside 0..5
\* returns InvalidRomFile, and with a code inside it an unrecognised type at
\* 0x147 returns UnsupportedType and a recognised one, for an image that fits
\* the cartridge, builds a cartridge whose
\* ROM has 2 << code banks for the code at 0x148 and, for the types with RAM
\* banks, whose RAM has the bank count the table gives for the code at 0x149.
C36_FactoryHeader ==
    [][(last'.name = "try_from") =>
          LET len == last'.address
              ty == last'.data[1]
              romc == last'.data[2]
              ramc == last'.data[3]
          IN  IF len < 330 \/ ramc \notin DOMAIN RamSizeTable
              THEN last'.result.tag = "InvalidRomFile"
              ELSE IF ty \notin RecognisedTypes
              THEN last'.result.tag = "UnsupportedType"
              ELSE ImageFits(len, ty, romc) =>
                   /\ last'.result.tag = "Ok"
                   /\ cart'.kind # "RomOnly" =>
                         cart'.rom.rom.len = ROM_BANK_SIZE * ShlU8(2, romc)
                   /\ ty \in TypesWithRamBanks =>
                         cart'.rom.ram.len = RAM_BANK_SIZE * RamSizeTable[ramc]]_vars

-----------------------------------------------------------------------------
(* Properties of instruction lengths and of overflow, under SpecCPU.        *)

\* the conditional absolute jumps and the conditional calls
ConditionalJumps == {194, 202, 210, 218}
ConditionalCalls == {196, 204, 212, 220}

\* the opcodes followed by one operand byte: LD r, imm8, the relative jumps,
\* STOP, the ALU operations on imm8, LDH with imm8, ADD SP and LD HL, SP + imm8,
\* and the CB prefix
TwoByteOpcodes ==
    {op \in 0 .. 63 : op % 8 = 6} \cup RelativeJumps \cup {16}
        \cup {op \in 192 .. 255 : op % 8 = 6} \cup {224, 240, 232, 248, 203}

\* the opcodes followed by two operand bytes: LD r16, imm16, LD [imm16], SP,
\* the absolute jumps and calls, LD [imm16], A and LD A, [imm16]
ThreeByteOpcodes ==
    {1, 17, 33, 49, 8, 195, 205, 234, 250} \cup ConditionalJumps \cup ConditionalCalls

EncodedLength(opcode) ==
    IF opcode \in ThreeByteOpcodes THEN 3 ELSE IF opcode \in TwoByteOpcodes THEN 2 ELSE 1

\* C37: a load_instruction that returns Ok leaves pc advanced by the encoded
\* length of the opcode it decoded: 3 for a conditional jump or call whether
\* or not the condition held, 2 for STOP and the CB prefix, and 1, 2 or 3 for
\* every other instruction.
C37_InstructionLength ==
    [][(Decoding /\ FirstByte(cart).val \notin InvalidOpcodes /\ last'.result.tag = "Ok") =>
          cart'.pc = (cart.pc + EncodedLength(FirstByte(cart).val)) % 65536]_vars

-----------------------------------------------------------------------------
(* Mapper operations never abort, under SpecMBC1.                           *)

\* C38: no read_rom, write_rom, read_mem or write_mem call on a cartridge,
\* with or without RAM banks or ROM banks, panics: each returns a value or an
\* error.
C38_NoMapperPanic ==
    last.name \in {"read_rom", "write_rom", "read_mem", "write_mem"} =>
        last.result.tag # "Panic"

-----------------------------------------------------------------------------
(* The getters against reconciliation, under SpecRTC.                       *)

\* the register reg of clock r
StoredRegister(r, reg) ==
    CASE reg = 8 -> r.seconds
      [] reg = 9 -> r.minutes
      [] reg = 10 -> r.hours
      [] reg = 11 -> r.days_lower
      [] reg = 12 -> r.days_upper

\* C39: on a clock that is not halted, each of get_seconds, get_minutes,
\* get_hours, get_days_lower and get_days_upper returns, without overflowing,
\* the register that update_time would produce at the same reading of the wall
\* clock.
C39_GettersAgreeWithUpdate ==
    [][(last'.name = "get" /\ cart.kind = "RTC" /\ ~cart.rtc.halted) =>
          last'.result =
             Some(StoredRegister(RealTimeClock_update_time(cart.rtc, now), last'.address))]_vars

-----------------------------------------------------------------------------
(* Address arithmetic at the top of the address space, under SpecDMG.       *)

\* C40: load_half_word(0xFFFF) and store_half_word(0xFFFF, v) do not abort:
\* the second byte is the one at 0x0000, so the load returns None or the bytes
\* at 0xFFFF and 0x0000 merged, and the store returns Ok or an error, having
\* handed its second byte to the cartridge at 0x0000 when it returns Ok.
C40_AddressesWrap ==
    [][/\ (last'.name = "load_half_word" /\ last'.address = 65535) =>
             /\ last'.result.tag # "Panic"
             /\ last'.result.tag = "Some" =>
                   last'.result.val =
                      Merge(DmgMemoryController_load_byte(cart, 65535, now, overflow_checks).res.val,
                            DmgMemoryController_load_byte(cart, 0, now, overflow_checks).res.val)
       /\ (last'.name = "store_half_word" /\ last'.address = 65535) =>
             /\ last'.result.tag # "Panic"
             /\ last'.result.tag = "Ok" =>
                   cart'.cartridge =
                      CartridgeMapper_write_rom(cart.cartridge, 0, Split(last'.data)[2], now).st]_vars

====
